---- MODULE Spec2Model ----
(***************************************************************************)
(* Model of onyo's operation-staging and commit engine                     *)
(* (onyo/lib/inventory.py, class Inventory).                               *)
(*                                                                         *)
(* A path is the sequence of its components below the repository root;     *)
(* the root itself is the empty sequence.  The backing store (OnyoRepo,    *)
(* the executors and the recorders) is not part of the sources at hand and *)
(* is modelled from its documented contract: a set of inventory            *)
(* directories, a map from asset paths to asset content and a set of       *)
(* other files.                                                            *)
(***************************************************************************)
EXTENDS Integers, Sequences, FiniteSets, TLC

VARIABLES
    dirs,        \* store: existing inventory directories (each carries its anchor)
    assets,      \* store: tracked asset path -> persisted content
    files,       \* store: other existing files (reserved .onyo entries, untracked files)
    config,      \* store: value of the configuration 'onyo.assets.filename'
    operations,  \* Inventory.operations, the queue
    nextId,      \* identity of the next InventoryOperation object to be created
    pc,          \* "idle", or the position inside commit(): "exec" / "stage"
    idx,         \* commit(): index of the operation the for-loop is at
    paths,       \* commit(): paths_to_commit + paths_to_stage
    oprecord,    \* commit(): operations_record, titles in insertion order
    executed,    \* ids of the operations executed by the current / latest commit()
    revisions,   \* every stage_and_commit call that created a revision
    stageCalls,  \* number of stage_and_commit calls of the current / latest commit()
    consumed,    \* ids of the operations consumed by successful commits
    discarded,   \* ids of the operations thrown away by reset()
    applied,     \* ids of the operations executed by a commit() that raised
    commits,     \* number of commit() calls so far
    last         \* the latest call of the caller: name, arguments, outcome

vars == <<dirs, assets, files, config, operations, nextId, pc, idx, paths,
          oprecord, executed, revisions, stageCalls, consumed, discarded,
          applied, commits, last>>

storeVars == <<dirs, assets, files, config>>
commitVars == <<idx, paths, oprecord, executed, stageCalls>>

----------------------------------------------------------------------------
(* Bounds of the model *)

\* intent calls are made while fewer than MaxOps operations were ever created
MaxOps == 2
\* number of commit() calls
MaxCommits == 2
\* records in a batch given to asset_paths_available
MaxBatch == 2
\* arguments of get_faux_serials
MaxLength == 4
MaxNum == 2
\* length of the value of a filter
MaxPattern == 2
\* longest list given to deduplicate
MaxLen == 3
\* longest argument list given to get_subcmd_index (beyond those of the tests)
MaxArgs == 4

----------------------------------------------------------------------------
(* Paths *)

root == <<>>
NoPath == <<"<none>">>
NoName == ""
ANCHOR_FILE == ".anchor"
OutsideName == ".."
OnyoDirName == ".onyo"

\* the parent of the root lies outside the repository
Parent(p) ==
    IF p = root THEN <<OutsideName>>
    ELSE IF p[1] = OutsideName THEN p
    ELSE SubSeq(p, 1, Len(p) - 1)
Name(p) == IF p = root THEN "" ELSE p[Len(p)]
Join(p, n) == p \o <<n>>
IsPrefix(a, p) == Len(a) <= Len(p) /\ SubSeq(p, 1, Len(a)) = a
\* pathlib's Path.parents, nearest first
Parents(p) == [k \in 1..Len(p) |-> SubSeq(p, 1, Len(p) - k)]
Reprefix(p, src, dst) ==
    IF IsPrefix(src, p) THEN dst \o SubSeq(p, Len(src) + 1, Len(p)) ELSE p

----------------------------------------------------------------------------
(* Store facade, as seen through a store value s = [dirs, assets, files]  *)

Store == [dirs |-> dirs, assets |-> assets, files |-> files]

is_onyo_path(p) == p # root /\ p[1] = OnyoDirName
is_inventory_path(p) == p = root \/ p[1] \notin {OnyoDirName, OutsideName}
S_exists(s, p) == p \in s.dirs \/ p \in DOMAIN s.assets \/ p \in s.files
exists(p) == S_exists(Store, p)
is_inventory_dir(p) == is_inventory_path(p) /\ p \in dirs
is_asset_path(p) == p \in DOMAIN assets
is_asset_dir(p) == p \in dirs /\ p \in DOMAIN assets
asset_paths == DOMAIN assets
\* the entries of a directory, its anchor included
S_iterdir(s, d) ==
    {p \in s.dirs \cup DOMAIN s.assets \cup s.files : p # root /\ Parent(p) = d}
        \cup (IF d \in s.dirs /\ d # root THEN {Join(d, ANCHOR_FILE)} ELSE {})
iterdir(d) == S_iterdir(Store, d)
\* the in-memory record of a tracked asset: its content plus the pseudo-key path
get_asset_content(p) ==
    [path |-> p, is_asset_directory |-> p \in dirs, content |-> assets[p]]

----------------------------------------------------------------------------
(* Naming *)

NoConfig == <<>>
\* the configured template '{model}.{serial}': its placeholders, joined by '.'
Template == <<"model", "serial">>

\* a format that expands the first placeholder only
Format_First(t, content) == IF t = <<>> THEN "" ELSE content[t[1]]

RECURSIVE Format(_, _)
Format(t, content) ==
    IF t = <<>> THEN ""
    ELSE IF Len(t) = 1 THEN content[t[1]]
    ELSE content[t[1]] \o "." \o Format(Tail(t), content)

Ok(v) == [err |-> "ok", val |-> v]
Raise(e, v) == [err |-> e, val |-> v]

\* the first placeholder of the template that the record has no value for
MissingKey(t, content) ==
    t[CHOOSE i \in 1..Len(t) :
        /\ t[i] \notin DOMAIN content
        /\ \A j \in 1..(i - 1) : t[j] \in DOMAIN content]

\* Inventory.generate_asset_name: [err, val = the name, or the key the
\* KeyError of str.format names]
generate_asset_name(asset) ==
    LET config_str == config IN
    IF config_str = NoConfig THEN Raise("ValueError", "onyo.assets.filename")
    ELSE IF \E i \in 1..Len(config_str) : config_str[i] \notin DOMAIN asset.content
         THEN Raise("ValueError", MissingKey(config_str, asset.content))
    ELSE Ok(Format(config_str, asset.content))

----------------------------------------------------------------------------
(* The queue.  An intent method is an operator from the queue q it finds  *)
(* to [err, val = the queue it leaves].                                   *)

OperationNames ==
    <<"new_directories", "new_assets", "remove_assets", "modify_assets",
      "rename_assets", "remove_directories", "move_directories",
      "rename_directories", "move_assets">>

OPERATIONS_MAPPING == {OperationNames[i] : i \in 1..Len(OperationNames)}

\* the identities of the operations of a queue
Ids(q) == [i \in 1..Len(q) |-> q[i].id]

\* an _add_operation that puts the new operation at the front of the queue
_add_operation_Prepend(q, name, operands) ==
    <<[name |-> name, operands |-> operands,
       id |-> nextId + (Len(q) - Len(operations))]>> \o q

\* Inventory._add_operation
_add_operation(q, name, operands) ==
    Append(q, [name |-> name, operands |-> operands,
               id |-> nextId + (Len(q) - Len(operations))])

RECURSIVE AddMissing_All(_, _, _)
\* the comprehension without its filter: every ancestor is queued
AddMissing_All(q, ps, k) ==
    IF k > Len(ps) THEN q
    ELSE AddMissing_All(_add_operation(q, "new_directories", <<ps[k]>>), ps, k + 1)

RECURSIVE AddMissing(_, _, _)
\* the list comprehension of add_directory over path.parents
AddMissing(q, ps, k) ==
    IF k > Len(ps) THEN q
    ELSE AddMissing(IF ~exists(ps[k])
                    THEN _add_operation(q, "new_directories", <<ps[k]>>)
                    ELSE q,
                    ps, k + 1)

\* add_directory that queues the creation of the target only
add_directory_TargetOnly(q, path) ==
    IF ~is_inventory_path(path) THEN Raise("ValueError", q)
    ELSE IF exists(path) THEN Raise("ValueError", q)
    ELSE Ok(_add_operation(q, "new_directories", <<path>>))

\* Inventory.add_directory
add_directory(q, path) ==
    IF ~is_inventory_path(path) THEN Raise("ValueError", q)
    ELSE IF exists(path) THEN Raise("ValueError", q)
    ELSE Ok(AddMissing(_add_operation(q, "new_directories", <<path>>),
                       Parents(path), 1))

\* rename_directory without the comparison of the parents
rename_directory_AnyParent(q, src, dst) ==
    IF ~is_inventory_dir(src) THEN Raise("ValueError", q)
    ELSE IF is_asset_dir(src) THEN Raise("ValueError", q)
    ELSE IF ~is_inventory_path(dst) \/ exists(dst) THEN Raise("ValueError", q)
    ELSE Ok(_add_operation(q, "rename_directories", <<src, dst>>))

\* Inventory.rename_directory, dst given as a path
rename_directory(q, src, dst) ==
    IF ~is_inventory_dir(src) THEN Raise("ValueError", q)
    ELSE IF is_asset_dir(src) THEN Raise("ValueError", q)
    ELSE IF Parent(src) # Parent(dst) THEN Raise("InvalidInventoryOperation", q)
    ELSE IF ~is_inventory_path(dst) \/ exists(dst) THEN Raise("ValueError", q)
    ELSE Ok(_add_operation(q, "rename_directories", <<src, dst>>))

\* add_asset without the check for an existing asset at the path
add_asset_NoExistCheck(q, asset) ==
    LET path == asset.path IN
    IF path = NoPath THEN Raise("ValueError", q)
    ELSE IF ~is_inventory_path(path) THEN Raise("ValueError", q)
    ELSE IF ~asset.is_asset_directory /\ ~is_inventory_dir(Parent(path)) THEN
        LET r == add_directory(q, Parent(path)) IN
        IF r.err # "ok" THEN r
        ELSE Ok(_add_operation(r.val, "new_assets", <<asset>>))
    ELSE Ok(_add_operation(q, "new_assets", <<asset>>))

\* Inventory.add_asset
add_asset(q, asset) ==
    LET path == asset.path IN
    IF path = NoPath THEN Raise("ValueError", q)
    ELSE IF is_asset_path(path) THEN Raise("ValueError", q)
    ELSE IF ~is_inventory_path(path) THEN Raise("ValueError", q)
    ELSE IF asset.is_asset_directory THEN
        IF is_inventory_dir(path) THEN
            LET g == generate_asset_name(asset) IN
            IF g.err # "ok" THEN Raise(g.err, q)
            ELSE LET r == rename_directory(q, path, Join(Parent(path), g.val)) IN
                 IF r.err # "ok" THEN r
                 ELSE Ok(_add_operation(r.val, "new_assets",
                         <<[asset EXCEPT !.path = Join(Parent(path), g.val)]>>))
        ELSE LET r == add_directory(q, path) IN
             IF r.err # "ok" THEN r
             ELSE Ok(_add_operation(r.val, "new_assets", <<asset>>))
    ELSE IF ~is_inventory_dir(Parent(path)) THEN
        LET r == add_directory(q, Parent(path)) IN
        IF r.err # "ok" THEN r
        ELSE Ok(_add_operation(r.val, "new_assets", <<asset>>))
    ELSE Ok(_add_operation(q, "new_assets", <<asset>>))

\* Inventory.remove_asset
remove_asset(q, path) ==
    IF ~is_asset_path(path) THEN Raise("NotAnAssetError", q)
    ELSE Ok(_add_operation(q, "remove_assets", <<path>>))

\* move_asset without the comparison of the destination to the current parent
move_asset_NoParentCheck(q, src, dst) ==
    IF ~is_asset_path(src) THEN Raise("NotAnAssetError", q)
    ELSE IF ~is_inventory_dir(dst) THEN Raise("ValueError", q)
    ELSE Ok(_add_operation(q, "move_assets", <<src, dst>>))

\* Inventory.move_asset
move_asset(q, src, dst) ==
    IF ~is_asset_path(src) THEN Raise("NotAnAssetError", q)
    ELSE IF Parent(src) = dst THEN Raise("ValueError", q)
    ELSE IF ~is_inventory_dir(dst) THEN Raise("ValueError", q)
    ELSE Ok(_add_operation(q, "move_assets", <<src, dst>>))

\* rename_asset testing for the no-op before it compares the given name
rename_asset_NoopFirst(q, asset, name) ==
    LET path == asset.path IN
    IF ~is_asset_path(path) THEN Raise("ValueError", q)
    ELSE LET g == generate_asset_name(asset) IN
         IF g.err # "ok" THEN Raise(g.err, q)
         ELSE IF Name(path) = g.val THEN Raise("NoopError", q)
         ELSE IF name # NoName /\ name # g.val THEN Raise("ValueError", q)
         ELSE IF exists(Join(Parent(path), g.val)) THEN Raise("ValueError", q)
         ELSE Ok(_add_operation(q, "rename_assets",
                                <<path, Join(Parent(path), g.val)>>))

\* Inventory.rename_asset, given the record (an Asset, or the content loaded
\* from the path) and the optional name
rename_asset(q, asset, name) ==
    LET path == asset.path IN
    IF ~is_asset_path(path) THEN Raise("ValueError", q)
    ELSE LET g == generate_asset_name(asset) IN
         IF g.err # "ok" THEN Raise(g.err, q)
         ELSE IF name # NoName /\ name # g.val THEN Raise("ValueError", q)
         ELSE LET nm == IF name = NoName THEN g.val ELSE name IN
              IF Name(path) = nm THEN Raise("NoopError", q)
              ELSE IF exists(Join(Parent(path), nm)) THEN Raise("ValueError", q)
              ELSE Ok(_add_operation(q, "rename_assets",
                                     <<path, Join(Parent(path), nm)>>))

\* dict.update on the content of a record
Update(content, delta) ==
    [k \in DOMAIN content \cup DOMAIN delta |->
        IF k \in DOMAIN delta THEN delta[k] ELSE content[k]]

\* modify_asset that leaves the implied rename out
modify_asset_NoRename(q, path, delta) ==
    IF ~is_asset_path(path) THEN Raise("ValueError", q)
    ELSE LET asset == get_asset_content(path)
             new_asset == [asset EXCEPT !.content = Update(asset.content, delta)]
         IN  Ok(_add_operation(q, "modify_assets", <<asset, new_asset>>))

\* Inventory.modify_asset, called with a path
modify_asset(q, path, delta) ==
    IF ~is_asset_path(path) THEN Raise("ValueError", q)
    ELSE LET asset == get_asset_content(path)
             new_asset == [asset EXCEPT !.content = Update(asset.content, delta)]
             q1 == _add_operation(q, "modify_assets", <<asset, new_asset>>)
             r == rename_asset(q1, new_asset, NoName)
         IN  IF r.err = "NoopError" THEN Ok(q1) ELSE r

\* remove_directory counting the anchor as content of the directory
remove_directory_CountAnchor(q, directory) ==
    IF ~is_inventory_dir(directory) THEN Raise("ValueError", q)
    ELSE IF \E p \in iterdir(directory) : ~is_onyo_path(p)
         THEN Raise("InvalidInventoryOperation", q)
    ELSE Ok(_add_operation(q, "remove_directories", <<directory>>))

\* Inventory.remove_directory
remove_directory(q, directory) ==
    IF ~is_inventory_dir(directory) THEN Raise("ValueError", q)
    ELSE IF \E p \in iterdir(directory) :
                Name(p) # ANCHOR_FILE /\ ~is_onyo_path(p)
         THEN Raise("InvalidInventoryOperation", q)
    ELSE Ok(_add_operation(q, "remove_directories", <<directory>>))

\* move_directory without the comparison of the destination to the parent
move_directory_NoParentCheck(q, src, dst) ==
    IF ~is_inventory_dir(src) THEN Raise("ValueError", q)
    ELSE IF ~is_inventory_dir(dst) THEN Raise("ValueError", q)
    ELSE Ok(_add_operation(q, "move_directories", <<src, dst>>))

\* Inventory.move_directory
move_directory(q, src, dst) ==
    IF ~is_inventory_dir(src) THEN Raise("ValueError", q)
    ELSE IF ~is_inventory_dir(dst) THEN Raise("ValueError", q)
    ELSE IF Parent(src) = dst THEN Raise("InvalidInventoryOperation", q)
    ELSE Ok(_add_operation(q, "move_directories", <<src, dst>>))

----------------------------------------------------------------------------
(* Non-operation methods *)

RECURSIVE TestPaths(_, _)
\* the loop of asset_paths_available over paths_to_test, from position k on.
\* The comprehension that counts the names reads p.name of every entry of
\* paths_to_test, also of an entry that is None.
TestPaths(paths_to_test, k) ==
    IF k > Len(paths_to_test) THEN Ok("")
    ELSE LET path == paths_to_test[k] IN
         IF path = NoPath THEN TestPaths(paths_to_test, k + 1)
         ELSE IF exists(path) THEN Raise("ValueError", "already exists")
         ELSE IF \E i \in 1..Len(paths_to_test) : paths_to_test[i] = NoPath
              THEN Raise("AttributeError", "name")
         ELSE IF Cardinality({i \in 1..Len(paths_to_test) :
                                Name(paths_to_test[i]) = Name(path)}) > 1
              THEN Raise("ValueError", "multiple given")
         ELSE IF ~is_inventory_path(path) THEN Raise("ValueError", "not a valid asset path")
         ELSE IF Name(path) \in {Name(p) : p \in asset_paths}
              THEN Raise("ValueError", "name already exists")
         ELSE TestPaths(paths_to_test, k + 1)

\* Inventory.asset_paths_available
asset_paths_available(batch) ==
    TestPaths([i \in 1..Len(batch) |-> batch[i].path], 1)

\* string.ascii_letters + string.digits, cut down to two characters
alphanum == {"a", "b"}
FAUX == "faux"

RECURSIVE Strings(_)
\* what random.choices(alphanum, k) can return, joined
Strings(k) ==
    IF k = 0 THEN {""} ELSE {c \o w : c \in alphanum, w \in Strings(k - 1)}

\* str.split('faux')[-1]: the text after the last 'faux', all of it if none
LastFaux(name) ==
    LET at == {k \in 1..(Len(name) - 3) : SubSeq(name, k, k + 3) = FAUX} IN
    IF at = {} THEN name
    ELSE LET k == CHOOSE x \in at : \A y \in at : y <= x IN
         SubSeq(name, k + 4, Len(name))

repo_faux_serials == {LastFaux(Name(x)) : x \in asset_paths}

\* a loop body that adds the serial whether or not the repository has it
FauxAdd_NoCheck(faux_serials, serial) == faux_serials \cup {FAUX \o serial}

\* a loop body that adds no serial to a set that holds one
FauxAdd_KeepOne(faux_serials, serial) ==
    IF serial \notin repo_faux_serials /\ faux_serials = {}
    THEN faux_serials \cup {FAUX \o serial}
    ELSE faux_serials

\* the body of the while-loop of get_faux_serials for one drawn serial
FauxAdd(faux_serials, serial) ==
    IF serial \notin repo_faux_serials
    THEN faux_serials \cup {FAUX \o serial}
    ELSE faux_serials

\* Inventory.get_faux_serials up to the while-loop: the checks of the arguments
get_faux_serials(length, num) ==
    IF length < 4 THEN Raise("ValueError", {})
    ELSE IF num < 1 THEN Raise("ValueError", {})
    ELSE Raise("running", {})

----------------------------------------------------------------------------
(* Filter (onyo/lib/filters.py).  A value of a record is [t = its Python  *)
(* type, v = what str() makes of it]; a record is a function from keys.    *)

UNSET_VALUE == "<unset>"

Str(x) == [t |-> "str", v |-> x]
NoneValue == [t |-> "NoneType", v |-> "None"]
EmptyList == [t |-> "list", v |-> "[]"]
EmptyDict == [t |-> "dict", v |-> "{}"]
ListValue == [t |-> "list", v |-> "['0']"]
IntValue == [t |-> "int", v |-> "0"]

str(x) == x.v

Char(w, i) == SubSeq(w, i, i)

\* re.compile raises re.error: an unterminated group, or a repeat with
\* nothing to repeat
re_error(r) ==
    \/ \E i \in 1..Len(r) : Char(r, i) = "("
    \/ \E i \in 1..Len(r) : Char(r, i) = "*" /\ (i = 1 \/ Char(r, i - 1) = "*")

RECURSIVE fullmatch(_, _)
\* Pattern.fullmatch for patterns of literal characters, '.' and '*'
fullmatch(r, text) ==
    IF r = "" THEN text = ""
    ELSE LET first == text # "" /\ (Char(r, 1) = "." \/ Char(r, 1) = Char(text, 1)) IN
         IF Len(r) >= 2 /\ Char(r, 2) = "*"
         THEN \/ fullmatch(SubSeq(r, 3, Len(r)), text)
              \/ first /\ fullmatch(r, Tail(text))
         ELSE first /\ fullmatch(Tail(r), Tail(text))

\* a _re_match that lets the error of re.compile pass
_re_match_Raises(text, r) ==
    IF re_error(r) THEN Raise("re.error", FALSE) ELSE Ok(fullmatch(r, text))

\* Filter._re_match
_re_match(text, r) ==
    IF re_error(r) THEN Ok(FALSE) ELSE Ok(fullmatch(r, text))

string_types == [x \in {"<list>", "<dict>"} |-> IF x = "<list>" THEN "list" ELSE "dict"]
empty_structs == {"[]", "{}"}

\* the test for a value that counts as unset, without the empty string
IsUnset_NoneOnly(x) == x = NoneValue

\* asset[self.key] is None or asset[self.key] == ''
IsUnset(x) == x = NoneValue \/ x = Str("")

\* Filter.match of the filter key=value on the record asset
match(key, value, asset) ==
    IF value \in DOMAIN string_types THEN
        IF key \notin DOMAIN asset THEN Raise("KeyError", FALSE)
        ELSE Ok(asset[key].t = string_types[value])
    ELSE IF value \in empty_structs THEN
        IF key \notin DOMAIN asset THEN Raise("KeyError", FALSE)
        ELSE Ok(str(asset[key]) = value)
    ELSE IF DOMAIN asset = {} /\ value = UNSET_VALUE THEN Ok(TRUE)
    ELSE IF key \notin DOMAIN asset /\ value = UNSET_VALUE THEN Ok(TRUE)
    ELSE IF key \in DOMAIN asset /\ value = UNSET_VALUE /\ IsUnset(asset[key])
         THEN Ok(TRUE)
    ELSE IF key \notin DOMAIN asset \/ value = UNSET_VALUE THEN Ok(FALSE)
    ELSE LET re_match == _re_match(str(asset[key]), value) IN
         IF re_match.err # "ok" THEN re_match
         ELSE Ok(re_match.val \/ asset[key] = Str(value))

----------------------------------------------------------------------------
(* Executors: store value and operands to [ok, s = the store left behind, *)
(* paths = the paths to commit and to stage]                              *)

Failed(s) == [ok |-> FALSE, s |-> s, paths |-> {}]
Done(s, ps) == [ok |-> TRUE, s |-> s, paths |-> ps]

Restrict(f, D) == [x \in D |-> f[x]]
S_isfile(s, p) == (p \in DOMAIN s.assets \/ p \in s.files) /\ p \notin s.dirs
Ancestors(p) == {SubSeq(p, 1, k) : k \in 0..(Len(p) - 1)}

\* move the entry src and everything below it to dst
MoveTree(s, src, dst) ==
    [dirs |-> {Reprefix(p, src, dst) : p \in s.dirs},
     assets |-> [n \in {Reprefix(p, src, dst) : p \in DOMAIN s.assets} |->
                    s.assets[IF IsPrefix(dst, n) THEN Reprefix(n, dst, src) ELSE n]],
     files |-> {Reprefix(p, src, dst) : p \in s.files}]

\* remove the entry d and everything below it
RemoveTree(s, d) ==
    [dirs |-> {p \in s.dirs : ~IsPrefix(d, p)},
     assets |-> Restrict(s.assets, {p \in DOMAIN s.assets : ~IsPrefix(d, p)}),
     files |-> {p \in s.files : ~IsPrefix(d, p)}]

\* creates the directory with its missing ancestors and their anchors
exec_new_directories(s, operands) ==
    LET p == operands[1]
        created == ((Ancestors(p) \cup {p}) \ s.dirs) \ {root} IN
    IF ~is_inventory_path(p) \/ \E a \in Ancestors(p) \cup {p} : S_isfile(s, a)
    THEN Failed(s)
    ELSE Done([s EXCEPT !.dirs = @ \cup created],
              {Join(d, ANCHOR_FILE) : d \in (Ancestors(p) \cup {p}) \ {root}})

\* writes the content of the new asset to its path
exec_new_assets(s, operands) ==
    LET asset == operands[1]
        p == asset.path IN
    IF asset.is_asset_directory /\ p \notin s.dirs THEN Failed(s)
    ELSE IF ~asset.is_asset_directory /\ (Parent(p) \notin s.dirs \/ p \in s.dirs)
    THEN Failed(s)
    ELSE Done([s EXCEPT !.assets =
                  [x \in DOMAIN @ \cup {p} |-> IF x = p THEN asset.content ELSE @[x]],
                        !.files = @ \ {p}],
              {p})

\* deletes the asset (an asset directory with all it contains)
exec_remove_assets(s, operands) ==
    LET p == operands[1] IN
    IF p \notin DOMAIN s.assets THEN Failed(s)
    ELSE Done(RemoveTree(s, p), {p})

\* writes the new content to the path of the asset
exec_modify_assets(s, operands) ==
    LET new == operands[2]
        p == new.path IN
    IF p \in s.dirs /\ p \notin DOMAIN s.assets THEN Failed(s)
    ELSE IF p \notin s.dirs /\ Parent(p) \notin s.dirs THEN Failed(s)
    ELSE Done([s EXCEPT !.assets =
                  [x \in DOMAIN @ \cup {p} |-> IF x = p THEN new.content ELSE @[x]],
                        !.files = @ \ {p}],
              {p})

\* moves the asset from operands[1] to operands[2]
exec_rename_assets(s, operands) ==
    LET src == operands[1]
        dst == operands[2] IN
    IF src \notin DOMAIN s.assets \/ S_exists(s, dst) \/ Parent(dst) \notin s.dirs
    THEN Failed(s)
    ELSE Done(MoveTree(s, src, dst), {src, dst})

\* removes the anchor and the then empty directory
exec_remove_directories(s, operands) ==
    LET d == operands[1] IN
    IF d \notin s.dirs \/ S_iterdir(s, d) \ {Join(d, ANCHOR_FILE)} # {}
    THEN Failed(s)
    ELSE Done(RemoveTree(s, d), {Join(d, ANCHOR_FILE)})

\* moves the directory operands[1] into the directory operands[2]
exec_move_directories(s, operands) ==
    LET src == operands[1]
        dst == operands[2]
        target == Join(dst, Name(src)) IN
    IF src = root \/ src \notin s.dirs \/ dst \notin s.dirs
       \/ S_exists(s, target) \/ IsPrefix(src, dst)
    THEN Failed(s)
    ELSE Done(MoveTree(s, src, target), {src, target})

\* moves the directory operands[1] to the path operands[2]
exec_rename_directories(s, operands) ==
    LET src == operands[1]
        dst == operands[2] IN
    IF src = root \/ src \notin s.dirs \/ Parent(dst) \notin s.dirs
       \/ S_exists(s, dst) \/ IsPrefix(src, dst)
    THEN Failed(s)
    ELSE Done(MoveTree(s, src, dst), {src, dst})

\* moves the asset operands[1] into the directory operands[2]
exec_move_assets(s, operands) ==
    LET src == operands[1]
        dst == operands[2]
        target == Join(dst, Name(src)) IN
    IF src \notin DOMAIN s.assets \/ dst \notin s.dirs
       \/ S_exists(s, target) \/ IsPrefix(src, dst)
    THEN Failed(s)
    ELSE Done(MoveTree(s, src, target), {src, target})

\* InventoryOperation.execute: dispatch on the operator the operation is bound to
execute(s, op) ==
    CASE op.name = "new_directories" -> exec_new_directories(s, op.operands)
      [] op.name = "new_assets" -> exec_new_assets(s, op.operands)
      [] op.name = "remove_assets" -> exec_remove_assets(s, op.operands)
      [] op.name = "modify_assets" -> exec_modify_assets(s, op.operands)
      [] op.name = "rename_assets" -> exec_rename_assets(s, op.operands)
      [] op.name = "remove_directories" -> exec_remove_directories(s, op.operands)
      [] op.name = "move_directories" -> exec_move_directories(s, op.operands)
      [] op.name = "rename_directories" -> exec_rename_directories(s, op.operands)
      [] op.name = "move_assets" -> exec_move_assets(s, op.operands)

----------------------------------------------------------------------------
(* Recorders: one title per kind, one snippet naming the operation's paths *)

Snippet(op) ==
    CASE op.name = "new_assets" -> <<op.operands[1].path>>
      [] op.name = "modify_assets" -> <<op.operands[1].path>>
      [] OTHER -> op.operands

recorder(op) == [title |-> op.name, snippets |-> <<Snippet(op)>>]

\* a loop body that starts a new entry for every operation
Record_AppendAlways(rec, r) == Append(rec, r)

\* the loop body of commit() over record_snippets.items()
Record(rec, r) ==
    IF \E i \in 1..Len(rec) : rec[i].title = r.title
    THEN [i \in 1..Len(rec) |->
            IF rec[i].title = r.title
            THEN [rec[i] EXCEPT !.snippets = @ \o r.snippets]
            ELSE rec[i]]
    ELSE Append(rec, r)

Range(f) == {f[i] : i \in DOMAIN f}
\* the orders in which iterating set(snippets) can yield its elements
Perms(S) == {f \in [1..Cardinality(S) -> S] : Range(f) = S}

RECURSIVE Sections(_)
\* the title sections commit() can assemble from operations_record
Sections(rec) ==
    IF rec = <<>> THEN {<<>>}
    ELSE {<<[title |-> rec[1].title, snippets |-> p]>> \o rest :
            p \in Perms(Range(rec[1].snippets)), rest \in Sections(Tail(rec))}

HEADER == "--- Inventory Operations ---"

\* commit_msg as lines: the message, a blank line, the header line, and then
\* the sections
commit_msg(message, secs) == <<message, "", HEADER>> \o secs

\* the differ of an operation: one line per path the operation names
differ(op) == [i \in 1..Len(Snippet(op)) |-> <<op.name, Snippet(op)[i]>>]

RECURSIVE diff_Reversed(_)
\* a diff that walks the queue from its end
diff_Reversed(q) ==
    IF q = <<>> THEN <<>>
    ELSE differ(q[Len(q)]) \o diff_Reversed(SubSeq(q, 1, Len(q) - 1))

RECURSIVE diff(_)
\* Inventory.diff: the lines the generator yields
diff(q) == IF q = <<>> THEN <<>> ELSE differ(Head(q)) \o diff(Tail(q))

----------------------------------------------------------------------------
(* Initial stores and the inputs of the caller *)

ContentM1 == [model |-> "m1", serial |-> "0"]
ContentM2 == [model |-> "m2", serial |-> "0"]
ContentNoSerial == [model |-> "m1"]

\* a/ holds one asset and an untracked file; m2.0 is an untracked file
Store1 ==
    [dirs |-> {root, <<"a">>},
     assets |-> (<<"a", "m1.0">> :> ContentM1),
     files |-> {<<OnyoDirName>>, <<"a", "junk">>, <<"m2.0">>}]

\* a/ holds the empty directory a/b/, an asset without serial and an
\* untracked file; m2.0/ is an empty directory
Store2 ==
    [dirs |-> {root, <<"a">>, <<"a", "b">>, <<"m2.0">>},
     assets |-> (<<"a", "x">> :> ContentNoSerial),
     files |-> {<<OnyoDirName>>, <<"a", "junk">>}]

\* an asset directory and two assets with names the template would not
\* generate, one of them with its generated name taken
Store3 ==
    [dirs |-> {root, <<"a">>, <<"m2.0">>},
     assets |-> (<<"m2.0">> :> ContentM2) @@ (<<"a", "m1.0">> :> ContentM2)
                    @@ (<<"a", "m3.0">> :> ContentM1),
     files |-> {<<OnyoDirName>>, <<"a", "junk">>}]

\* a fresh repository: the root holds the reserved .onyo entry only
Store4 ==
    [dirs |-> {root},
     assets |-> << >>,
     files |-> {<<OnyoDirName>>}]

InitStores ==
    {<<Store1, NoConfig>>, <<Store1, Template>>, <<Store2, Template>>,
     <<Store3, Template>>, <<Store4, Template>>}

Asset(p, ad, c) == [path |-> p, is_asset_directory |-> ad, content |-> c]

AddAssetArgs ==
    {Asset(NoPath, FALSE, ContentM1),
     Asset(<<OutsideName, "m1.0">>, FALSE, ContentM1),
     Asset(<<"a", "m1.0">>, FALSE, ContentM1),
     Asset(<<"a", "m2.0">>, FALSE, ContentM2),
     Asset(<<"c", "d", "m1.0">>, FALSE, ContentM1),
     Asset(<<"a", "junk", "m1.0">>, FALSE, ContentM1),
     Asset(<<"a", "b">>, TRUE, ContentM2),
     Asset(<<"m2.0">>, TRUE, ContentM2)}
AddDirectoryArgs == {<<"a">>, <<"c", "d">>, <<OutsideName, "d">>}
RemoveAssetArgs == {<<"a", "m1.0">>, <<"a", "junk">>}
MoveAssetArgs ==
    {<<<<"a", "m1.0">>, root>>, <<<<"a", "m1.0">>, <<"a">>>>,
     <<<<"a", "m1.0">>, <<"c", "d">>>>, <<<<"a", "junk">>, root>>}
RenameAssetArgs ==
    {<<<<"a", "m1.0">>, NoName>>, <<<<"a", "m1.0">>, "m1.0">>,
     <<<<"a", "m1.0">>, "m2.0">>, <<<<"a", "m3.0">>, NoName>>,
     <<<<"a", "x">>, NoName>>, <<<<"a", "junk">>, NoName>>}
ModifyAssetArgs ==
    {<<<<"a", "m1.0">>, [model |-> "m1"]>>, <<<<"a", "m1.0">>, [model |-> "m2"]>>,
     <<<<"a", "m3.0">>, [model |-> "m1"]>>, <<<<"a", "x">>, [model |-> "m2"]>>,
     <<<<"a", "junk">>, [model |-> "m2"]>>}
RemoveDirectoryArgs == {root, <<"a">>, <<"a", "b">>, <<"c", "d">>}
MoveDirectoryArgs ==
    {<<<<"a", "b">>, root>>, <<<<"a", "b">>, <<"a">>>>,
     <<<<"a">>, <<"a", "b">>>>, <<<<"c", "d">>, root>>, <<<<"a">>, <<"c", "d">>>>}
RenameDirectoryArgs ==
    {<<<<"a", "b">>, <<"a", "c">>>>, <<<<"a", "b">>, <<"c">>>>,
     <<<<"a", "b">>, <<"a", "junk">>>>, <<<<"m2.0">>, <<"c">>>>,
     <<<<"c", "d">>, <<"c", "e">>>>, <<<<"a">>, <<OutsideName, "d">>>>}
Messages == {"msg"}

\* the record of a call: what was called, how it ended, what it returned or
\* yielded, and the queue and the store it found
Call(name, args, err) ==
    [name |-> name, args |-> args, err |-> err, out |-> <<>>,
     pre |-> operations, store |-> Store]

Init ==
    /\ \E i \in InitStores :
        /\ dirs = i[1].dirs
        /\ assets = i[1].assets
        /\ files = i[1].files
        /\ config = i[2]
    /\ operations = <<>>
    /\ nextId = 1
    /\ pc = "idle"
    /\ idx = 1
    /\ paths = {}
    /\ oprecord = <<>>
    /\ executed = <<>>
    /\ revisions = <<>>
    /\ stageCalls = 0
    /\ consumed = {}
    /\ discarded = {}
    /\ applied = {}
    /\ commits = 0
    /\ last = Call("init", <<>>, "ok")

----------------------------------------------------------------------------
(* Actions *)

IntentNames ==
    {"add_asset", "add_directory", "remove_asset", "move_asset", "rename_asset",
     "modify_asset", "remove_directory", "move_directory", "rename_directory"}

\* The latest call raised and left the queue as it found it, or was a diff().
\* What the caller can reach by a further intent call from there it reaches by
\* the same call from the state before that call, so those steps are left out.
Retraced ==
    \/ last.name \in IntentNames /\ last.err # "ok" /\ operations = last.pre
    \/ last.name = "diff"

\* an intent method that runs the executor of the operation it enqueued last
Intent_Eager(name, args, r) ==
    /\ pc = "idle"
    /\ nextId <= MaxOps
    /\ ~Retraced
    /\ operations' = r.val
    /\ nextId' = nextId + (Len(r.val) - Len(operations))
    /\ last' = Call(name, args, r.err)
    /\ LET s == IF r.err = "ok" THEN execute(Store, r.val[Len(r.val)]).s ELSE Store IN
        /\ dirs' = s.dirs
        /\ assets' = s.assets
        /\ files' = s.files
    /\ UNCHANGED <<config, commitVars, pc, revisions, consumed, discarded, applied, commits>>

\* the caller invokes an intent method, which returns or raises r
Intent(name, args, r) ==
    /\ pc = "idle"
    /\ nextId <= MaxOps
    /\ ~Retraced
    /\ operations' = r.val
    /\ nextId' = nextId + (Len(r.val) - Len(operations))
    /\ last' = Call(name, args, r.err)
    /\ UNCHANGED <<storeVars, commitVars, pc, revisions, consumed, discarded, applied, commits>>

AddAsset ==
    \E asset \in AddAssetArgs :
        Intent("add_asset", <<asset>>, add_asset(operations, asset))

AddDirectory ==
    \E p \in AddDirectoryArgs :
        Intent("add_directory", <<p>>, add_directory(operations, p))

RemoveAsset ==
    \E p \in RemoveAssetArgs :
        Intent("remove_asset", <<p>>, remove_asset(operations, p))

MoveAsset ==
    \E a \in MoveAssetArgs :
        Intent("move_asset", a, move_asset(operations, a[1], a[2]))

\* rename_asset called with a path: the record is loaded from the store
RenameAsset ==
    \E a \in RenameAssetArgs :
        Intent("rename_asset", a,
               IF is_asset_path(a[1])
               THEN rename_asset(operations, get_asset_content(a[1]), a[2])
               ELSE Raise("ValueError", operations))

ModifyAsset ==
    \E a \in ModifyAssetArgs :
        Intent("modify_asset", a, modify_asset(operations, a[1], a[2]))

RemoveDirectory ==
    \E d \in RemoveDirectoryArgs :
        Intent("remove_directory", <<d>>, remove_directory(operations, d))

MoveDirectory ==
    \E a \in MoveDirectoryArgs :
        Intent("move_directory", a, move_directory(operations, a[1], a[2]))

RenameDirectory ==
    \E a \in RenameDirectoryArgs :
        Intent("rename_directory", a, rename_directory(operations, a[1], a[2]))

\* a reset that keeps the oldest operation
reset_KeepFirst(q) == IF q = <<>> THEN q ELSE <<q[1]>>

\* a reset that keeps the queue
reset_Keep(q) == q

\* Inventory.reset: the queue it leaves
reset(q) == <<>>

\* Inventory.operations_pending
operations_pending(q) == q # <<>>

Reset ==
    /\ pc = "idle"
    /\ operations' = reset(operations)
    /\ discarded' = discarded \cup Range(Ids(operations))
    /\ last' = Call("reset", <<>>, "ok")
    /\ UNCHANGED <<storeVars, commitVars, nextId, pc, revisions, consumed, applied,
                   commits>>

\* the caller runs the generator of Inventory.diff to its end
Diff ==
    /\ pc = "idle"
    /\ last' = [Call("diff", <<>>, "ok") EXCEPT !.out = diff(operations)]
    /\ UNCHANGED <<storeVars, commitVars, operations, nextId, pc, revisions,
                   consumed, discarded, applied, commits>>

\* Inventory.commit, up to the for-loop
CommitStart ==
    /\ pc = "idle"
    /\ commits < MaxCommits
    /\ \E m \in Messages : last' = Call("commit", <<m>>, "running")
    /\ pc' = "commit"
    /\ commits' = commits + 1
    /\ idx' = 1
    /\ paths' = {}
    /\ oprecord' = <<>>
    /\ executed' = <<>>
    /\ stageCalls' = 0
    /\ UNCHANGED <<storeVars, operations, nextId, revisions, consumed, discarded, applied>>

KindIndex(name) == CHOOSE k \in 1..Len(OperationNames) : OperationNames[k] = name

\* iteration grouped by kind, in the key order of OPERATIONS_MAPPING
NextOperation_ByKind(q, i) ==
    LET Before(a, b) ==
            \/ KindIndex(q[a].name) < KindIndex(q[b].name)
            \/ KindIndex(q[a].name) = KindIndex(q[b].name) /\ a < b
        j == CHOOSE b \in 1..Len(q) :
                Cardinality({a \in 1..Len(q) : Before(a, b)}) = i - 1
    IN  q[j]

\* iteration over the queue from its end
NextOperation_Reversed(q, i) == q[Len(q) + 1 - i]

\* 'for operation in self.operations': the operation of the i-th iteration
NextOperation(q, i) == q[i]

\* keeps the paths of the latest executor only
Accumulate_Last(ps, r) == r.paths

\* paths_to_commit.extend(to_commit); paths_to_stage.extend(to_stage)
Accumulate(ps, r) == ps \cup r.paths

\* a loop body that skips an operation whose executor raises
LoopBody_Swallow(c, s, q) ==
    LET operation == NextOperation(q, c.idx)
        r == execute(s, operation) IN
    IF r.ok
    THEN [raised |-> FALSE, s |-> r.s,
          c |-> [idx |-> c.idx + 1,
                 paths |-> Accumulate(c.paths, r),
                 oprecord |-> Record(c.oprecord, recorder(operation)),
                 executed |-> Append(c.executed, operation.id)]]
    ELSE [raised |-> FALSE, s |-> s, c |-> [c EXCEPT !.idx = @ + 1]]

\* One iteration of the for-loop of commit() on the locals c and the store s:
\* execute, collect the paths, record.  An executor that raises ends commit().
LoopBody(c, s, q) ==
    LET operation == NextOperation(q, c.idx)
        r == execute(s, operation) IN
    IF r.ok
    THEN [raised |-> FALSE, s |-> r.s,
          c |-> [idx |-> c.idx + 1,
                 paths |-> Accumulate(c.paths, r),
                 oprecord |-> Record(c.oprecord, recorder(operation)),
                 executed |-> Append(c.executed, operation.id)]]
    ELSE [raised |-> TRUE, s |-> s, c |-> c]

CommitExec ==
    /\ pc = "commit"
    /\ idx <= Len(operations)
    /\ LET b == LoopBody([idx |-> idx, paths |-> paths, oprecord |-> oprecord,
                          executed |-> executed], Store, operations) IN
        /\ dirs' = b.s.dirs
        /\ assets' = b.s.assets
        /\ files' = b.s.files
        /\ idx' = b.c.idx
        /\ paths' = b.c.paths
        /\ oprecord' = b.c.oprecord
        /\ executed' = b.c.executed
        /\ pc' = IF b.raised THEN "idle" ELSE pc
        /\ last' = IF b.raised THEN [last EXCEPT !.err = "ExecutionError"] ELSE last
        /\ applied' = IF b.raised THEN applied \cup Range(executed) ELSE applied
    /\ UNCHANGED <<config, operations, nextId, revisions, stageCalls, consumed,
                   discarded, commits>>

\* a commit() that returns without a stage_and_commit call when nothing is queued
CommitStage_SkipEmpty ==
    /\ pc = "commit"
    /\ idx > Len(operations)
    /\ pc' = "idle"
    /\ IF operations = <<>>
       THEN /\ last' = [last EXCEPT !.err = "ok"]
            /\ UNCHANGED <<operations, revisions, consumed, stageCalls, applied>>
       ELSE /\ stageCalls' = stageCalls + 1
            /\ \/ /\ \E secs \in Sections(oprecord) :
                        revisions' = Append(revisions,
                            [paths |-> paths,
                             message |-> commit_msg(last.args[1], secs),
                             ids |-> executed])
                  /\ operations' = reset(operations)
                  /\ consumed' = consumed \cup Range(executed)
                  /\ last' = [last EXCEPT !.err = "ok"]
                  /\ UNCHANGED applied
               \/ /\ last' = [last EXCEPT !.err = "CommitError"]
                  /\ applied' = applied \cup Range(executed)
                  /\ UNCHANGED <<operations, revisions, consumed>>
    /\ UNCHANGED <<storeVars, nextId, idx, paths, oprecord, executed, discarded, commits>>

\* a commit() that ends with reset() also when stage_and_commit raised
CommitStage_ResetAlways ==
    /\ pc = "commit"
    /\ idx > Len(operations)
    /\ stageCalls' = stageCalls + 1
    /\ pc' = "idle"
    /\ operations' = reset(operations)
    /\ \/ /\ \E secs \in Sections(oprecord) :
                revisions' = Append(revisions,
                    [paths |-> paths,
                     message |-> commit_msg(last.args[1], secs),
                     ids |-> executed])
          /\ consumed' = consumed \cup Range(executed)
          /\ last' = [last EXCEPT !.err = "ok"]
          /\ UNCHANGED applied
       \/ /\ last' = [last EXCEPT !.err = "CommitError"]
          /\ applied' = applied \cup Range(executed)
          /\ UNCHANGED <<revisions, consumed>>
    /\ UNCHANGED <<storeVars, nextId, idx, paths, oprecord, executed, discarded, commits>>

\* Inventory.commit, after the for-loop: assemble the message, stage_and_commit,
\* and reset() unless stage_and_commit raised
CommitStage ==
    /\ pc = "commit"
    /\ idx > Len(operations)
    /\ stageCalls' = stageCalls + 1
    /\ pc' = "idle"
    /\ \/ /\ \E secs \in Sections(oprecord) :
                revisions' = Append(revisions,
                    [paths |-> paths,
                     message |-> commit_msg(last.args[1], secs),
                     ids |-> executed])
          /\ operations' = reset(operations)
          /\ consumed' = consumed \cup Range(executed)
          /\ last' = [last EXCEPT !.err = "ok"]
          /\ UNCHANGED applied
       \/ /\ last' = [last EXCEPT !.err = "CommitError"]
          /\ applied' = applied \cup Range(executed)
          /\ UNCHANGED <<operations, revisions, consumed>>
    /\ UNCHANGED <<storeVars, nextId, idx, paths, oprecord, executed, discarded, commits>>

Next ==
    \/ AddAsset
    \/ AddDirectory
    \/ RemoveAsset
    \/ MoveAsset
    \/ RenameAsset
    \/ ModifyAsset
    \/ RemoveDirectory
    \/ MoveDirectory
    \/ RenameDirectory
    \/ Reset
    \/ Diff
    \/ CommitStart
    \/ CommitExec
    \/ CommitStage

Spec == Init /\ [][Next]_vars

----------------------------------------------------------------------------
(* The non-operation methods and Filter.match, called on an inventory that *)
(* may have an operation queued                                            *)

ContentFaux == [model |-> "m1", serial |-> "fauxaaaa"]
ContentOther == [other |-> "z"]

\* a/ holds an asset with a faux serial and one without
Store5 ==
    [dirs |-> {root, <<"a">>},
     assets |-> (<<"a", "m1.fauxaaaa">> :> ContentFaux)
                    @@ (<<"a", "m1.0">> :> ContentM1),
     files |-> {<<OnyoDirName>>}]

QueryStores == InitStores \cup {<<Store5, Template>>}

\* the empty queue, and the queue add_directory(c) leaves
QueryQueues ==
    {<<>>, <<[name |-> "new_directories", operands |-> <<<<"c">>>>, id |-> 1]>>}

QueryInit ==
    /\ \E i \in QueryStores :
        /\ dirs = i[1].dirs
        /\ assets = i[1].assets
        /\ files = i[1].files
        /\ config = i[2]
    /\ operations \in QueryQueues
    /\ nextId = Len(operations) + 1
    /\ pc = "idle"
    /\ idx = 1
    /\ paths = {}
    /\ oprecord = <<>>
    /\ executed = <<>>
    /\ revisions = <<>>
    /\ stageCalls = 0
    /\ consumed = {}
    /\ discarded = {}
    /\ applied = {}
    /\ commits = 0
    /\ last = Call("init", <<>>, "ok")

\* The caller invokes a method that returns or raises r.  The methods leave
\* all but the record of the call as it was, so a call after another reaches
\* what the same call reaches as the first.
QueryReady == pc = "idle" /\ last.name = "init"

Query(name, args, r) ==
    /\ last' = [Call(name, args, r.err) EXCEPT !.out = r.val]
    /\ UNCHANGED <<storeVars, commitVars, operations, nextId, pc, revisions,
                   consumed, discarded, applied, commits>>

BatchPaths ==
    {NoPath, <<"a", "m1.0">>, <<"c", "m1.0">>, <<OutsideName, "m9.0">>,
     <<"c", "m9.0">>, <<"d", "m9.0">>}
BatchRecords == {Asset(p, FALSE, ContentM1) : p \in BatchPaths}
Batches == UNION {[1..n -> BatchRecords] : n \in 0..MaxBatch}

AssetPathsAvailable ==
    /\ QueryReady
    /\ \E batch \in Batches :
        Query("asset_paths_available", <<batch>>, asset_paths_available(batch))

NameRecords ==
    {Asset(<<"a", "m1.0">>, FALSE, c) :
        c \in {ContentM1, ContentM2, ContentNoSerial, ContentFaux, ContentOther}}

GenerateAssetName ==
    /\ QueryReady
    /\ \E asset \in NameRecords :
        Query("generate_asset_name", <<asset>>, generate_asset_name(asset))

GetFauxSerials ==
    /\ QueryReady
    /\ \E length \in 3..MaxLength, num \in 0..MaxNum :
        Query("get_faux_serials", <<length, num>>, get_faux_serials(length, num))

\* one pass of the while-loop of get_faux_serials: the test of the condition,
\* and the body for the serial that random.choices drew
FauxDraw ==
    /\ last.name = "get_faux_serials"
    /\ last.err = "running"
    /\ IF Cardinality(last.out) < last.args[2]
       THEN \E serial \in Strings(last.args[1]) :
                last' = [last EXCEPT !.out = FauxAdd(@, serial)]
       ELSE last' = [last EXCEPT !.err = "ok"]
    /\ UNCHANGED <<storeVars, commitVars, operations, nextId, pc, revisions,
                   consumed, discarded, applied, commits>>

\* get_faux_serials alone, with a random.choices that does not avoid for ever
\* the serials that the loop would add
FauxNext ==
    \/ GetFauxSerials
    \/ FauxDraw

FauxSpec == QueryInit /\ [][FauxNext]_vars /\ WF_vars(FauxDraw)

PatternChars == {"0", ".", "*", "("}
RECURSIVE Patterns(_)
Patterns(k) ==
    IF k = 0 THEN {""} ELSE {c \o w : c \in PatternChars, w \in Patterns(k - 1)}

FilterKeys == {"serial", "tags"}
FilterValues ==
    {UNSET_VALUE, "<list>", "<dict>", "[]", "{}"}
        \cup UNION {Patterns(k) : k \in 0..MaxPattern}
FilterAssets ==
    {<<>>, [model |-> Str("m1")]}
        \cup {[serial |-> x] :
                x \in {Str("0"), Str("00"), Str(""), Str("*"), Str("."),
                        NoneValue, IntValue}}
        \cup {[serial |-> Str("0"), tags |-> x] :
                x \in {EmptyList, ListValue, EmptyDict}}

Match ==
    /\ QueryReady
    /\ \E key \in FilterKeys, value \in FilterValues, asset \in FilterAssets :
        Query("match", <<key, value, asset>>, match(key, value, asset))

QueryNext ==
    \/ AssetPathsAvailable
    \/ GenerateAssetName
    \/ GetFauxSerials
    \/ FauxDraw
    \/ Match

QuerySpec == QueryInit /\ [][QueryNext]_vars

----------------------------------------------------------------------------
(* onyo/lib/utils.py and get_subcmd_index of onyo/main.py.  A dict is the  *)
(* sequence of its items [k, v] in insertion order; a value is a string    *)
(* Str(x) or a dict Mapping(d).                                            *)

Mapping(d) == [t |-> "mapping", v |-> d]
Item(k, v) == [k |-> k, v |-> v]

\* list(d.keys())
Keys(d) == [i \in 1..Len(d) |-> d[i].k]
\* k in d.keys()
HasKey(d, k) == \E i \in 1..Len(d) : d[i].k = k
\* d[k] for a key d has
Get(d, k) == d[CHOOSE i \in 1..Len(d) : d[i].k = k].v
\* d[k] = v: a key d has keeps its place, a new key goes to the end
Put(d, k, v) ==
    IF HasKey(d, k)
    THEN [i \in 1..Len(d) |-> IF d[i].k = k THEN Item(k, v) ELSE d[i]]
    ELSE Append(d, Item(k, v))
RECURSIVE Del(_, _)
\* del d[k] for a key d has
Del(d, k) ==
    IF d = <<>> THEN <<>>
    ELSE IF Head(d).k = k THEN Tail(d)
    ELSE <<Head(d)>> \o Del(Tail(d), k)

RECURSIVE split(_)
\* key.split('.')
split(key) ==
    LET at == {i \in 1..Len(key) : SubSeq(key, i, i) = "."} IN
    IF at = {} THEN <<key>>
    ELSE LET i == CHOOSE x \in at : \A y \in at : x <= y IN
         <<SubSeq(key, 1, i - 1)>> \o split(SubSeq(key, i + 1, Len(key)))

RECURSIVE recursive_keys(_)
\* DotNotationWrapper._keys: the keys of the nested dicts in dot notation
recursive_keys(d) ==
    IF d = <<>> THEN <<>>
    ELSE LET k == Head(d).k
             x == Head(d).v
             sub == IF x.t = "mapping" THEN recursive_keys(x.v) ELSE <<>> IN
         (IF x.t = "mapping"
          THEN [i \in 1..Len(sub) |-> k \o "." \o sub[i]]
          ELSE <<k>>) \o recursive_keys(Tail(d))

\* a containment that looks at the yielded keys only
contains_KeysOnly(data, key) == key \in Range(recursive_keys(data))

\* DotNotationWrapper.__contains__
contains(data, key) ==
    key \in Range(recursive_keys(data)) \/ key \in Range(Keys(data))

\* DotNotationWrapper.__len__
len(data) == Len(recursive_keys(data))

RECURSIVE GetIn(_, _)
\* the walk of __getitem__ along parts from the dict or value x
GetIn(x, parts) ==
    IF x.t # "mapping" THEN Raise("TypeError", x)
    ELSE IF ~HasKey(x.v, Head(parts)) THEN Raise("KeyError", x)
    ELSE IF Len(parts) = 1 THEN Ok(Get(x.v, Head(parts)))
    ELSE GetIn(Get(x.v, Head(parts)), Tail(parts))

\* DotNotationWrapper.__getitem__ for a str key
getitem(data, key) == GetIn(Mapping(data), split(key))

RECURSIVE SetIn(_, _, _)
\* the walk of __setitem__: the dict d after the assignment, or the error of
\* indexing a value that is no dict
SetIn(d, parts, item) ==
    LET k == Head(parts) IN
    IF Len(parts) = 1 THEN Ok(Put(d, k, item))
    ELSE IF ~HasKey(d, k)
    THEN Ok(Put(d, k, Mapping(SetIn(<<>>, Tail(parts), item).val)))
    ELSE IF Get(d, k).t # "mapping" THEN Raise("TypeError", d)
    ELSE LET r == SetIn(Get(d, k).v, Tail(parts), item) IN
         IF r.err = "ok" THEN Ok(Put(d, k, Mapping(r.val))) ELSE Raise(r.err, d)

\* a __setitem__ that assigns the item under the undivided key
setitem_Flat(data, key, item) == Ok(Put(data, key, item))

\* DotNotationWrapper.__setitem__ for a str key: the wrapped dict it leaves
setitem(data, key, item) == SetIn(data, split(key), item)

RECURSIVE DelIn(_, _)
\* the walk of __delitem__
DelIn(d, parts) ==
    LET k == Head(parts) IN
    IF ~HasKey(d, k) THEN Raise("KeyError", d)
    ELSE IF Len(parts) = 1 THEN Ok(Del(d, k))
    ELSE IF Get(d, k).t # "mapping" THEN Raise("TypeError", d)
    ELSE LET r == DelIn(Get(d, k).v, Tail(parts)) IN
         IF r.err = "ok" THEN Ok(Put(d, k, Mapping(r.val))) ELSE Raise(r.err, d)

\* DotNotationWrapper.__delitem__ for a str key: the wrapped dict it leaves
delitem(data, key) == DelIn(data, split(key))

\* the value of a list argument, and of None
List(sq) == [t |-> "list", v |-> sq]
None == [t |-> "NoneType", v |-> <<>>]

RECURSIVE DedupLoop_Last(_, _, _, _)
\* a comprehension that keeps the last occurrence of a value
DedupLoop_Last(sq, i, seen, out) ==
    IF i > Len(sq) THEN out
    ELSE DedupLoop_Last(sq, i + 1, seen,
            IF \E j \in (i + 1)..Len(sq) : sq[j] = sq[i] THEN out ELSE Append(out, sq[i]))

RECURSIVE DedupLoop(_, _, _, _)
\* [x for x in sequence if not (x in seen or seen.add(x))] from position i on
DedupLoop(sq, i, seen, out) ==
    IF i > Len(sq) THEN out
    ELSE IF sq[i] \in seen THEN DedupLoop(sq, i + 1, seen, out)
    ELSE DedupLoop(sq, i + 1, seen \cup {sq[i]}, Append(out, sq[i]))

\* utils.deduplicate
deduplicate(sequence) ==
    IF sequence = None \/ sequence.v = <<>> THEN sequence
    ELSE List(DedupLoop(sequence.v, 1, {}, <<>>))

PSEUDO_KEYS == <<"path">>
RESERVED_KEYS == <<"directory", "is_asset_directory", "template">>

RECURSIVE Strip(_, _)
\* 'for k in ...: if k in content.keys(): del content[k]'
Strip(content, ks) ==
    IF ks = <<>> THEN content
    ELSE Strip(IF HasKey(content, Head(ks)) THEN Del(content, Head(ks)) ELSE content,
               Tail(ks))

\* YAML(typ='rt').dump with explicit_start: the start marker, then one line
\* per top-level key with its value
yaml_dump(content) == <<"---">> \o [i \in 1..Len(content) |-> <<content[i].k, content[i].v>>]

\* a conversion that strips the reserved keys only
dict_to_asset_yaml_ReservedOnly(d) ==
    LET content == Strip(d, RESERVED_KEYS) IN
    [d |-> d, yaml |-> IF content = <<>> THEN <<"---">> ELSE yaml_dump(content)]

\* utils.dict_to_asset_yaml: the string it returns, as lines, and the
\* argument as the call leaves it
dict_to_asset_yaml(d) ==
    LET content == Strip(d, PSEUDO_KEYS \o RESERVED_KEYS) IN
    [d |-> d, yaml |-> IF content = <<>> THEN <<"---">> ELSE yaml_dump(content)]

flagplus == {"-C", "--onyopath"}
\* the index returned for None
NoIndex == -1

RECURSIVE get_subcmd_index(_, _)
\* main.get_subcmd_index on a list with indices from 0: arglist[i] is al[i + 1].
\* a[0] of an empty argument raises IndexError, which is not caught.
get_subcmd_index(al, start) ==
    LET rest == start..(Len(al) - 1)
        stop == {i \in rest : al[i + 1] = "" \/ SubSeq(al[i + 1], 1, 1) # "-"} IN
    IF stop = {} THEN Ok(NoIndex)
    ELSE LET index == CHOOSE i \in stop : \A j \in stop : i <= j IN
         IF al[index + 1] = "" THEN Raise("IndexError", NoIndex)
         ELSE IF al[index] \in flagplus THEN get_subcmd_index(al, index + 1)
         ELSE Ok(index)
----------------------------------------------------------------------------
(* The callers of the functions of utils.py and of get_subcmd_index *)

RECURSIVE ListsOf(_, _)
\* the lists over S of length n
ListsOf(S, n) ==
    IF n = 0 THEN {<<>>} ELSE {<<x>> \o l : x \in S, l \in ListsOf(S, n - 1)}

DedupElements == {"x", "y", "z"}
DedupArgs ==
    {None} \cup {List(l) : l \in UNION {ListsOf(DedupElements, n) : n \in 0..MaxLen}}

ArgWords == {"onyo", "mv", "-C", "-d", ""}
\* the command lines of test_get_subcmd_index_overlap
OverlapArgs ==
    {<<"onyo", "-C", "onyo", "-d", "mv", "onyo", "mv">>,
     <<"onyo", "-C", "mv", "mv", "mv", "onyo">>}
ArgLists == OverlapArgs \cup UNION {ListsOf(ArgWords, n) : n \in 0..MaxArgs}

\* a record with user keys, the pseudo-key and the reserved keys, one user
\* key holding a dict with a reserved key of its own
FullRecord ==
    <<Item("model", Str("m1")), Item("path", Str("a/m1.0")),
      Item("directory", Str("a")), Item("spec", Mapping(<<Item("template", Str("t"))>>)),
      Item("is_asset_directory", Str("False")), Item("template", Str("t"))>>
YamlRecords ==
    {SelectSeq(FullRecord, LAMBDA x : x.k \in S) : S \in SUBSET Range(Keys(FullRecord))}
WritePaths == {<<"a", "m1.0">>, <<"a", "m9.0">>}

DotParts == {"a", "b"}
DotKeys == DotParts \cup {x \o "." \o y : x, y \in DotParts}
DotItems == {Str("1"), Mapping(<<>>)}
DotInits ==
    {<<>>,
     <<Item("a", Mapping(<<Item("b", Mapping(<<Item("c", Str("1"))>>))>>))>>}
DotNames == {"setitem", "delitem", "getitem", "contains", "keys"}

UtilInit ==
    /\ dirs = Store1.dirs
    /\ assets = Store1.assets
    /\ files = Store1.files
    /\ config = Template
    /\ operations = <<>>
    /\ nextId = 1
    /\ pc = "idle"
    /\ idx = 1
    /\ paths = {}
    /\ oprecord = <<>>
    /\ executed = <<>>
    /\ revisions = <<>>
    /\ stageCalls = 0
    /\ consumed = {}
    /\ discarded = {}
    /\ applied = {}
    /\ commits = 0
    /\ \E data \in DotInits :
        last = [Call("init", <<>>, "ok") EXCEPT !.out = [data |-> data]]

Deduplicate ==
    /\ QueryReady
    /\ \E sequence \in DedupArgs :
        Query("deduplicate", <<sequence>>, Ok(deduplicate(sequence)))

GetSubcmdIndex ==
    /\ QueryReady
    /\ \E arglist \in ArgLists :
        Query("get_subcmd_index", <<arglist>>, get_subcmd_index(arglist, 1))

DictToAssetYaml ==
    /\ QueryReady
    /\ \E d \in YamlRecords :
        Query("dict_to_asset_yaml", <<d>>, Ok(dict_to_asset_yaml(d)))

\* utils.write_asset_file: the file at path holds the string of
\* dict_to_asset_yaml
WriteAssetFile ==
    /\ QueryReady
    /\ \E path \in WritePaths, asset \in YamlRecords :
        /\ last' = [Call("write_asset_file", <<path, asset>>, "ok")
                        EXCEPT !.out = dict_to_asset_yaml(asset)]
        /\ files' = IF path \in DOMAIN assets THEN files ELSE files \cup {path}
    /\ UNCHANGED <<dirs, assets, config, commitVars, operations, nextId, pc, revisions,
                   consumed, discarded, applied, commits>>

\* a call on the wrapper that the latest call, or the constructor, left
DotReady == pc = "idle" /\ last.name \in {"init"} \cup DotNames

DotCall(name, args, err, data, val) ==
    /\ last' = [Call(name, args, err) EXCEPT !.out = [data |-> data, val |-> val]]
    /\ UNCHANGED <<storeVars, commitVars, operations, nextId, pc, revisions,
                   consumed, discarded, applied, commits>>

DotSetItem ==
    /\ DotReady
    /\ \E key \in DotKeys, item \in DotItems :
        LET r == setitem(last.out.data, key, item) IN
        DotCall("setitem", <<last.out.data, key, item>>, r.err, r.val, None)

DotDelItem ==
    /\ DotReady
    /\ \E key \in DotKeys :
        LET r == delitem(last.out.data, key) IN
        DotCall("delitem", <<last.out.data, key>>, r.err, r.val, None)

DotGetItem ==
    /\ DotReady
    /\ \E key \in DotKeys :
        LET r == getitem(last.out.data, key) IN
        DotCall("getitem", <<last.out.data, key>>, r.err, last.out.data,
                IF r.err = "ok" THEN r.val ELSE None)

DotContains ==
    /\ DotReady
    /\ \E key \in DotKeys :
        DotCall("contains", <<last.out.data, key>>, "ok", last.out.data,
                contains(last.out.data, key))

\* list(w.keys()), which is list(iter(w)), and len(w)
DotKeysLen ==
    /\ DotReady
    /\ DotCall("keys", <<last.out.data>>, "ok", last.out.data,
               [keys |-> recursive_keys(last.out.data), len |-> len(last.out.data)])

UtilNext ==
    \/ Deduplicate
    \/ GetSubcmdIndex
    \/ DictToAssetYaml
    \/ WriteAssetFile
    \/ DotSetItem
    \/ DotDelItem
    \/ DotGetItem
    \/ DotContains
    \/ DotKeysLen

UtilSpec == UtilInit /\ [][UtilNext]_vars

----------------------------------------------------------------------------
(* Properties *)

Kinds(q) == [i \in 1..Len(q) |-> <<q[i].name, q[i].operands>>]
Appended == SubSeq(operations, Len(last.pre) + 1, Len(operations))
QueueUnchanged == operations = last.pre

RECURSIVE FirstFailure(_, _, _)
\* the first position from i on whose executor fails when q runs on s; 0 if none
FirstFailure(s, q, i) ==
    IF i > Len(q) THEN 0
    ELSE LET r == execute(s, q[i]) IN
         IF r.ok THEN FirstFailure(r.s, q, i + 1) ELSE i

RECURSIVE Replay(_, _, _)
\* the store after the executors of q[1..k] ran on s
Replay(s, q, k) ==
    IF k = 0 THEN s ELSE execute(Replay(s, q, k - 1), q[k]).s

C2_StoreOnlyByExecutors ==
    /\ last.name # "commit" => Store = last.store
    /\ last.name = "commit" => Store = Replay(last.store, last.pre, Len(executed))

\* add_directory has returned and the directory does not exist
C2_Witness ==
    /\ last.name = "add_directory"
    /\ last.err = "ok"
    /\ ~exists(last.args[1])
    /\ Len(revisions) > 0

\* C3: whenever an intent method raises, the queue after the call is the
\* queue before the call.
C3_FailedCallLeavesQueue ==
    last.name \in IntentNames /\ last.err # "ok" => QueueUnchanged

\* C4: in every commit() stage_and_commit is called at most once, only after
\* the executor of every queued operation has returned, with the union of the
\* paths the executors returned; no revision is created while an operation of
\* the commit is unexecuted.
C4_StageOnce ==
    /\ stageCalls <= 1
    /\ Len(revisions) <= commits
    /\ pc = "commit" => stageCalls = 0 /\ Len(revisions) < commits
    /\ last.name = "commit" /\ stageCalls = 1 =>
            /\ Len(executed) = Len(last.pre)
            /\ FirstFailure(last.store, last.pre, 1) = 0
    /\ last.name = "commit" /\ last.err = "ok" =>
            /\ stageCalls = 1
            /\ revisions[Len(revisions)].ids = Ids(last.pre)
            /\ revisions[Len(revisions)].paths =
                UNION {execute(Replay(last.store, last.pre, i - 1), last.pre[i]).paths :
                        i \in 1..Len(last.pre)}

\* a commit of two operations or more has created its revision
C4_Witness ==
    /\ last.name = "commit"
    /\ last.err = "ok"
    /\ Len(last.pre) >= 2
    /\ Cardinality(revisions[Len(revisions)].paths) >= 3

\* C5: after commit() has returned the queue is empty and every operation it
\* found queued was executed once; no operation consumed by a commit is
\* queued or executed again.
C5_Consumed ==
    /\ last.name = "commit" /\ last.err = "ok" =>
            /\ ~operations_pending(operations)
            /\ executed = Ids(last.pre)
            /\ \A i, j \in 1..Len(executed) : i # j => executed[i] # executed[j]
            /\ Range(executed) \subseteq consumed
    /\ \A i \in 1..Len(operations) : operations[i].id \notin consumed
    /\ pc = "commit" => Range(executed) \cap consumed = {}

\* a second commit has returned, both having executed operations
C5_Witness ==
    /\ last.name = "commit"
    /\ last.err = "ok"
    /\ Len(revisions) = 2
    /\ revisions[1].ids # <<>>
    /\ revisions[2].ids # <<>>

\* C6: if the executor of the k-th queued operation fails, commit() raises,
\* operations 1..k-1 stay applied to the store, operations k+1.. are not
\* executed and stage_and_commit is not called.
C6_ExecutorFailure ==
    last.name = "commit" /\ pc = "idle" =>
        LET k == FirstFailure(last.store, last.pre, 1) IN
        /\ last.err = "ExecutionError" <=> k > 0
        /\ k > 0 =>
            /\ executed = Ids(SubSeq(last.pre, 1, k - 1))
            /\ Store = Replay(last.store, last.pre, k - 1)
            /\ stageCalls = 0
            /\ Len(revisions) < commits

\* the executor of an operation after the first and before the last has failed
C6_Witness ==
    /\ last.name = "commit"
    /\ last.err = "ExecutionError"
    /\ Len(executed) >= 1
    /\ Len(last.pre) >= Len(executed) + 2
    /\ Store # last.store

\* C7: add_asset fails and leaves the queue as it was when the record's path
\* is a tracked asset, when the record has no path, and when the path is not
\* an inventory path.
C7_AddAssetRejects ==
    last.name = "add_asset" =>
        LET path == last.args[1].path IN
        (path = NoPath \/ is_asset_path(path) \/ ~is_inventory_path(path)) =>
            last.err # "ok" /\ QueueUnchanged

\* add_asset was called on a non-empty queue for the path of a tracked asset
C7_Witness ==
    /\ last.name = "add_asset"
    /\ is_asset_path(last.args[1].path)
    /\ last.pre # <<>>

\* C8: a modify_asset that returns has appended the modify_assets operation
\* of (old, new), new being old overridden by the delta, followed by the
\* rename_assets operation to the generated name iff that name differs from
\* the current file name, and nothing else.
C8_ModifyThenRename ==
    last.name = "modify_asset" /\ last.err = "ok" =>
        LET path == last.args[1]
            old == get_asset_content(path)
            new == [old EXCEPT !.content = Update(old.content, last.args[2])]
            g == generate_asset_name(new)
            modify == <<"modify_assets", <<old, new>>>>
            rename == <<"rename_assets", <<path, Join(Parent(path), g.val)>>>> IN
        /\ g.err = "ok"
        /\ SubSeq(operations, 1, Len(last.pre)) = last.pre
        /\ g.val = Name(path) => Kinds(Appended) = <<modify>>
        /\ g.val # Name(path) => Kinds(Appended) = <<modify, rename>>

\* modify_asset has appended a modification and the rename it implies
C8_Witness ==
    /\ last.name = "modify_asset"
    /\ last.err = "ok"
    /\ last.pre # <<>>
    /\ Len(Appended) = 2

\* the record and the name generated for it in a call rename_asset(path, name)
C9_Generated == generate_asset_name(get_asset_content(last.args[1]))
C9_Case == last.name = "rename_asset" /\ is_asset_path(last.args[1]) /\ config # NoConfig

\* C9 as claimed: rename_asset on a tracked asset fails with NoopError iff the
\* template applied to the record gives the current file name.
C9_Original ==
    C9_Case =>
        (last.err = "NoopError"
            <=> C9_Generated.err = "ok" /\ C9_Generated.val = Name(last.args[1]))

\* C9: rename_asset on a tracked asset fails with NoopError iff the template
\* applied to the record gives the current file name and no name was given
\* that differs from it; a given name that differs from the generated name,
\* and an existing destination, fail with ValueError; in the no-op case
\* nothing is enqueued.
C9_NoopIff ==
    C9_Case =>
        LET path == last.args[1]
            name == last.args[2]
            g == C9_Generated
            agrees == name = NoName \/ name = g.val IN
        /\ last.err = "NoopError" <=> g.err = "ok" /\ g.val = Name(path) /\ agrees
        /\ last.err = "NoopError" => QueueUnchanged
        /\ g.err = "ok" /\ ~agrees => last.err = "ValueError" /\ QueueUnchanged
        /\ g.err = "ok" /\ agrees /\ g.val # Name(path)
                /\ exists(Join(Parent(path), g.val)) =>
            last.err = "ValueError" /\ QueueUnchanged

\* rename_asset has raised NoopError for a call on a non-empty queue
C9_Witness ==
    /\ C9_Case
    /\ last.err = "NoopError"
    /\ last.pre # <<>>

\* the entries of d other than its anchor and the reserved entries
C10_Content(d) ==
    {p \in dirs \cup DOMAIN assets \cup files :
        p # root /\ Parent(p) = d /\ p[1] # OnyoDirName}

\* C10: remove_directory on an inventory directory fails with
\* InvalidInventoryOperation, the queue unchanged, iff the directory has an
\* entry besides its anchor and reserved entries; otherwise it enqueues one
\* remove_directories operation for it.
C10_RemoveDirectory ==
    last.name = "remove_directory" /\ is_inventory_dir(last.args[1]) =>
        LET d == last.args[1] IN
        /\ last.err = "InvalidInventoryOperation" <=> C10_Content(d) # {}
        /\ last.err # "ok" => QueueUnchanged /\ last.err = "InvalidInventoryOperation"
        /\ last.err = "ok" =>
            /\ SubSeq(operations, 1, Len(last.pre)) = last.pre
            /\ Kinds(Appended) = <<<<"remove_directories", <<d>>>>>>

\* remove_directory has enqueued the removal of a directory that holds its
\* anchor only
C10_Witness ==
    /\ last.name = "remove_directory"
    /\ last.err = "ok"
    /\ last.args[1] # root
    /\ iterdir(last.args[1]) # {}

\* C11: move_directory(src, dst) fails with ValueError when src or dst is not
\* an inventory directory, fails with InvalidInventoryOperation when both are
\* and dst is the parent of src, the queue unchanged in both cases, and in
\* every other case appends exactly one move_directories operation of
\* (src, dst).
C11_MoveDirectory ==
    last.name = "move_directory" =>
        LET src == last.args[1]
            dst == last.args[2]
            valid == is_inventory_dir(src) /\ is_inventory_dir(dst) IN
        /\ ~valid => last.err = "ValueError" /\ QueueUnchanged
        /\ valid /\ Parent(src) = dst =>
                last.err = "InvalidInventoryOperation" /\ QueueUnchanged
        /\ valid /\ Parent(src) # dst =>
                /\ last.err = "ok"
                /\ SubSeq(operations, 1, Len(last.pre)) = last.pre
                /\ Kinds(Appended) = <<<<"move_directories", <<src, dst>>>>>>

\* move_directory of a directory into its own parent was refused on a
\* non-empty queue
C11_Witness ==
    /\ last.name = "move_directory"
    /\ last.err = "InvalidInventoryOperation"
    /\ is_inventory_dir(last.args[1])
    /\ Parent(last.args[1]) = last.args[2]
    /\ last.pre # <<>>

\* the conditions under which rename_directory(src, dst) enqueues
C12_Valid(src, dst) ==
    /\ is_inventory_dir(src)
    /\ ~is_asset_dir(src)
    /\ Parent(src) = Parent(dst)
    /\ is_inventory_path(dst)
    /\ ~exists(dst)

\* every queued rename_directories operation stays within one parent
C12_SameParent ==
    \A i \in 1..Len(operations) :
        operations[i].name = "rename_directories" =>
            Parent(operations[i].operands[1]) = Parent(operations[i].operands[2])

\* C12 as claimed: rename_directory enqueues only under C12_Valid, leaves the
\* queue unchanged when it fails, and fails with InvalidInventoryOperation
\* whenever the parents of src and dst differ.
C12_Original ==
    /\ C12_SameParent
    /\ last.name = "rename_directory" =>
        LET src == last.args[1]
            dst == last.args[2] IN
        /\ last.err = "ok" => C12_Valid(src, dst)
        /\ last.err # "ok" => QueueUnchanged
        /\ Parent(src) # Parent(dst) => last.err = "InvalidInventoryOperation"

\* C12: rename_directory enqueues one rename_directories operation of
\* (src, dst) iff src is an inventory directory that is no asset directory,
\* dst has the parent of src, is an inventory path and does not exist; it
\* leaves the queue unchanged when it fails; it fails with
\* InvalidInventoryOperation iff src is such a directory and the parents
\* differ, and with ValueError otherwise.  Every queued rename_directories
\* operation stays within one parent.
C12_RenameDirectory ==
    /\ C12_SameParent
    /\ last.name = "rename_directory" =>
        LET src == last.args[1]
            dst == last.args[2]
            source_ok == is_inventory_dir(src) /\ ~is_asset_dir(src) IN
        /\ last.err = "ok" <=> C12_Valid(src, dst)
        /\ last.err = "ok" =>
                /\ SubSeq(operations, 1, Len(last.pre)) = last.pre
                /\ Kinds(Appended) = <<<<"rename_directories", <<src, dst>>>>>>
        /\ last.err # "ok" => QueueUnchanged
        /\ last.err = "InvalidInventoryOperation"
                <=> source_ok /\ Parent(src) # Parent(dst)
        /\ ~source_ok => last.err = "ValueError"

\* rename_directory of a plain directory to another parent was refused on a
\* non-empty queue
C12_Witness ==
    /\ last.name = "rename_directory"
    /\ last.err = "InvalidInventoryOperation"
    /\ Parent(last.args[1]) # Parent(last.args[2])
    /\ last.pre # <<>>

\* C13: move_asset(source, dst) enqueues one move_assets operation of
\* (source, dst) iff source is a tracked asset, dst is an existing inventory
\* directory and dst is not the parent of source; otherwise it fails and
\* leaves the queue unchanged.  No queued move_assets operation has the
\* parent of its source as destination.
C13_MoveAsset ==
    /\ \A i \in 1..Len(operations) :
            operations[i].name = "move_assets" =>
                Parent(operations[i].operands[1]) # operations[i].operands[2]
    /\ last.name = "move_asset" =>
        LET src == last.args[1]
            dst == last.args[2] IN
        /\ last.err = "ok"
                <=> is_asset_path(src) /\ is_inventory_dir(dst) /\ Parent(src) # dst
        /\ last.err = "ok" =>
                /\ SubSeq(operations, 1, Len(last.pre)) = last.pre
                /\ Kinds(Appended) = <<<<"move_assets", <<src, dst>>>>>>
        /\ last.err # "ok" => QueueUnchanged

\* move_asset of a tracked asset to the directory that holds it was refused
\* on a non-empty queue
C13_Witness ==
    /\ last.name = "move_asset"
    /\ last.err # "ok"
    /\ is_asset_path(last.args[1])
    /\ Parent(last.args[1]) = last.args[2]
    /\ last.pre # <<>>

AssetIntents == {"remove_asset", "move_asset", "rename_asset", "modify_asset"}

\* C14: remove_asset, move_asset, rename_asset and modify_asset, called with a
\* path that is no tracked asset, fail with NotAnAssetError and enqueue
\* nothing.
C14_NotAnAsset ==
    last.name \in AssetIntents /\ ~is_asset_path(last.args[1]) =>
        last.err = "NotAnAssetError" /\ QueueUnchanged

NewDirectory(p) == <<"new_directories", <<p>>>>
NewAsset(asset) == <<"new_assets", <<asset>>>>

\* q is a queue left by add_directory(lab) and a following add_asset of a
\* plain record in lab, on a store s where lab is missing and its parent is not
C15_Case(q, s) ==
    /\ Len(q) \in 2..3
    /\ q[1].name = "new_directories"
    /\ q[Len(q)].name = "new_assets"
    /\ LET lab == q[1].operands[1]
           record == q[Len(q)].operands[1] IN
        /\ ~S_exists(s, lab)
        /\ Parent(lab) \in s.dirs
        /\ ~record.is_asset_directory
        /\ Parent(record.path) = lab
        /\ \A i \in 2..(Len(q) - 1) : Kinds(q)[i] = NewDirectory(lab)

\* the titles of the sections of a commit message
Titles(message) == [i \in 1..(Len(message) - 3) |-> message[i + 3].title]

\* C15: add_directory(lab) and then add_asset of a record at lab/<name>, lab
\* missing in the store, leave the queue [new_directory(lab),
\* new_asset(record)]; commit() executes these two and the message has the
\* section of the created directory before the section of the created asset.
C15_Scenario ==
    /\ last.name = "add_asset" /\ last.err = "ok" /\ C15_Case(operations, Store) =>
            Kinds(operations) = <<NewDirectory(Parent(last.args[1].path)),
                                  NewAsset(last.args[1])>>
    /\ last.name = "commit" /\ last.err = "ok" /\ C15_Case(last.pre, last.store) =>
            /\ Len(last.pre) = 2
            /\ Len(executed) = 2
            /\ Titles(revisions[Len(revisions)].message)
                    = <<"new_directories", "new_assets">>

Missing(p) == ~exists(p)
\* the ancestors of p that do not exist, nearest first
MissingAncestors(p) == SelectSeq(Parents(p), Missing)
\* the operations that create p and its missing ancestors
NewDirectories(p) ==
    <<NewDirectory(p)>>
        \o [i \in 1..Len(MissingAncestors(p)) |-> NewDirectory(MissingAncestors(p)[i])]

\* C16: an add_asset of a plain record that returns has appended
\* new_assets(record) last; when the parent of the record's path is an
\* inventory directory that is all it appended, and when it is not, the
\* new_directories operations of the parent and of each missing ancestor of
\* the parent come before it.
C16_AddAssetPlain ==
    last.name = "add_asset" /\ last.err = "ok"
            /\ ~last.args[1].is_asset_directory =>
        LET record == last.args[1]
            parent == Parent(record.path) IN
        /\ SubSeq(operations, 1, Len(last.pre)) = last.pre
        /\ Kinds(Appended)[Len(Appended)] = NewAsset(record)
        /\ is_inventory_dir(parent) => Kinds(Appended) = <<NewAsset(record)>>
        /\ ~is_inventory_dir(parent) =>
                Kinds(Appended) = NewDirectories(parent) \o <<NewAsset(record)>>

\* add_asset has queued the creation of two missing directories and then the
\* new asset
C16_Witness ==
    /\ last.name = "add_asset"
    /\ last.err = "ok"
    /\ ~last.args[1].is_asset_directory
    /\ Len(Appended) = 3
    /\ Len(MissingAncestors(Parent(last.args[1].path))) = 1

\* C17: an add_directory(p) that returns has appended new_directories(p) and
\* then one new_directories operation per ancestor of p that does not exist,
\* nearest first, and none for an ancestor that exists; add_directory fails,
\* the queue unchanged, iff p is no inventory path or p exists.
C17_AddDirectory ==
    last.name = "add_directory" =>
        LET p == last.args[1] IN
        /\ last.err # "ok" <=> ~is_inventory_path(p) \/ exists(p)
        /\ last.err # "ok" => QueueUnchanged
        /\ last.err = "ok" =>
            /\ SubSeq(operations, 1, Len(last.pre)) = last.pre
            /\ Kinds(Appended) = NewDirectories(p)
            /\ \A i \in 1..Len(Appended) : ~exists(Appended[i].operands[1])

\* add_directory has queued the target and a missing ancestor where another
\* ancestor exists
C17_Witness ==
    /\ last.name = "add_directory"
    /\ last.err = "ok"
    /\ Len(Appended) = 2
    /\ Appended[2].operands[1] = Parent(last.args[1])
    /\ Len(Parents(last.args[1])) = 2

\* C18: add_asset of a record marked is_asset_directory: when the path is an
\* inventory directory (whatever its name, the generated name included) the
\* call appends rename_directories(path, parent/generated name) and then
\* new_assets of the record with its path set to parent/generated name; when
\* the path does not exist the call appends the new_directories operations
\* of the path and its missing ancestors and then new_assets(record).
C18_AssetDirectory ==
    last.name = "add_asset" /\ last.args[1].path # NoPath
            /\ last.args[1].is_asset_directory
            /\ ~is_asset_path(last.args[1].path)
            /\ is_inventory_path(last.args[1].path) =>
        LET record == last.args[1]
            path == record.path
            g == generate_asset_name(record)
            renamed == Join(Parent(path), g.val) IN
        /\ is_inventory_dir(path) /\ g.err = "ok" =>
            /\ last.err = "ok"
            /\ Kinds(Appended) = <<<<"rename_directories", <<path, renamed>>>>,
                                   NewAsset([record EXCEPT !.path = renamed])>>
        /\ ~exists(path) =>
            /\ last.err = "ok"
            /\ Kinds(Appended) = NewDirectories(path) \o <<NewAsset(record)>>

\* C19: when every commit() so far has returned, no two tracked assets have
\* the same file name, wherever in the tree they are.
C19_UniqueNames ==
    last.name = "commit" /\ last.err = "ok" /\ Len(revisions) = commits =>
        \A p, q \in DOMAIN assets : p # q => Name(p) # Name(q)

RECURSIVE FirstTitles(_)
\* the titles of the recorders of q, each once, in order of first occurrence
FirstTitles(q) ==
    IF q = <<>> THEN <<>>
    ELSE LET r == FirstTitles(SubSeq(q, 1, Len(q) - 1))
             t == recorder(q[Len(q)]).title IN
         IF t \in Range(r) THEN r ELSE Append(r, t)

\* C20: the message of the revision a commit() creates is the message given,
\* a blank line, the header line, and then one section per recorder title,
\* in the order in which the titles first occur among the executed
\* operations, each holding the snippets recorded under its title.
C20_Message ==
    last.name = "commit" /\ last.err = "ok" =>
        LET m == revisions[Len(revisions)].message IN
        /\ Len(m) >= 3
        /\ m[1] = last.args[1]
        /\ m[2] = ""
        /\ m[3] = HEADER
        /\ Titles(m) = FirstTitles(last.pre)
        /\ \A i \in 1..Len(Titles(m)) :
                Range(m[i + 3].snippets) =
                    {Snippet(last.pre[k]) : k \in {j \in 1..Len(last.pre) :
                        recorder(last.pre[j]).title = m[i + 3].title}}

\* a commit has created a revision from a queue in which a title recurs
\* after another title
C20_Witness ==
    /\ last.name = "commit"
    /\ last.err = "ok"
    /\ \E i, j, k \in 1..Len(last.pre) :
        /\ i < j /\ j < k
        /\ last.pre[i].name = last.pre[k].name
        /\ last.pre[i].name # last.pre[j].name

RECURSIVE SnippetsOf(_, _)
\* the snippets the recorders of q produce under a title, in queue order
SnippetsOf(q, title) ==
    IF q = <<>> THEN <<>>
    ELSE (IF recorder(Head(q)).title = title THEN recorder(Head(q)).snippets ELSE <<>>)
            \o SnippetsOf(Tail(q), title)

RECURSIVE Dedup(_)
\* a sequence without the repetitions of its elements, in order of first occurrence
Dedup(sq) ==
    IF sq = <<>> THEN <<>>
    ELSE LET r == Dedup(SubSeq(sq, 1, Len(sq) - 1)) IN
         IF sq[Len(sq)] \in Range(r) THEN r ELSE Append(r, sq[Len(sq)])

\* C21: in the message of the revision a commit() creates, the snippets under
\* each title are in the order in which the recorders produced them (the
\* order of the queue), each once; the message is thereby a function of the
\* queue and the store.
C21_SnippetOrder ==
    last.name = "commit" /\ last.err = "ok" =>
        LET m == revisions[Len(revisions)].message IN
        \A i \in 1..Len(Titles(m)) :
            m[i + 3].snippets = Dedup(SnippetsOf(last.pre, m[i + 3].title))

\* C22: reset() leaves the queue empty and the store as it was: after it
\* operations_pending() is false and diff() yields nothing; the operations it
\* discarded are not queued again, and a commit() after it executes none of
\* them.
C22_Reset ==
    /\ last.name = "reset" =>
        /\ operations = <<>>
        /\ ~operations_pending(operations)
        /\ diff(operations) = <<>>
        /\ Store = last.store
        /\ Range(Ids(last.pre)) \subseteq discarded
    /\ last.name = "diff" /\ last.pre = <<>> => last.out = <<>>
    /\ \A i \in 1..Len(operations) : operations[i].id \notin discarded
    /\ last.name = "commit" => Range(executed) \cap discarded = {}

\* a commit() after a reset() that discarded operations has executed others
C22_Witness ==
    /\ last.name = "commit"
    /\ last.err = "ok"
    /\ discarded # {}
    /\ executed # <<>>

RECURSIVE C23_Lines(_, _)
\* the lines of the differs of q[1..k], q[1] first
C23_Lines(q, k) ==
    IF k = 0 THEN <<>> ELSE C23_Lines(q, k - 1) \o differ(q[k])

\* C23: diff() leaves the queue and the store as they were and yields the
\* lines of the differs of the queued operations in queue order; a diff()
\* in the state it leaves yields the same lines.
C23_Diff ==
    last.name = "diff" =>
        /\ operations = last.pre
        /\ Store = last.store
        /\ last.out = C23_Lines(last.pre, Len(last.pre))
        /\ diff(operations) = last.out

\* diff() has yielded the lines of operations of two kinds
C23_Witness ==
    /\ last.name = "diff"
    /\ Len(operations) >= 2
    /\ \E i, j \in 1..Len(last.out) : last.out[i][1] # last.out[j][1]

\* C24: a commit() on an empty queue calls stage_and_commit once, with no
\* path and with the message made of the message given, a blank line and
\* the header line.
C24_EmptyCommit ==
    last.name = "commit" /\ last.pre = <<>> /\ pc = "idle" =>
        /\ stageCalls = 1
        /\ paths = {}
        /\ oprecord = <<>>
        /\ last.err \in {"ok", "CommitError"}
        /\ last.err = "ok" =>
            /\ revisions[Len(revisions)].paths = {}
            /\ revisions[Len(revisions)].message = <<last.args[1], "", HEADER>>

\* a commit() on an empty queue has created a revision
C24_Witness ==
    /\ last.name = "commit"
    /\ last.pre = <<>>
    /\ last.err = "ok"
    /\ Len(revisions) >= 1
    /\ stageCalls = 1

\* the first check of asset_paths_available that the i-th record of a batch
\* fails, "" if it passes all
C25_Violation(batch, i) ==
    LET path == batch[i].path IN
    IF exists(path) THEN "already exists"
    ELSE IF \E j \in 1..Len(batch) :
                j # i /\ batch[j].path # NoPath /\ Name(batch[j].path) = Name(path)
         THEN "multiple given"
    ELSE IF ~is_inventory_path(path) THEN "not a valid asset path"
    ELSE IF \E p \in DOMAIN assets : Name(p) = Name(path) THEN "name already exists"
    ELSE ""

\* C25: asset_paths_available(records) returns iff every record with a path
\* passes the four checks (the path does not exist, no other record has its
\* file name, it is an inventory path, no tracked asset has its file name);
\* otherwise it raises the error of the first check failed by the first
\* record that fails one; it leaves the queue and the store as they were.
C25_PathsAvailable ==
    last.name = "asset_paths_available" =>
        LET batch == last.args[1]
            bad == {i \in 1..Len(batch) :
                        batch[i].path # NoPath /\ C25_Violation(batch, i) # ""} IN
        /\ last.err = "ok" <=> bad = {}
        /\ bad # {} =>
            /\ last.err = "ValueError"
            /\ last.out = C25_Violation(batch, CHOOSE i \in bad : \A j \in bad : i <= j)
        /\ operations = last.pre
        /\ Store = last.store

\* C26: get_faux_serials(length, num) raises ValueError and returns nothing
\* iff length < 4 or num < 1; otherwise every serial it collects, and every
\* serial of the set it returns, is 'faux' followed by length alphanumeric
\* characters that are not the text after the last 'faux' of the file name
\* of a tracked asset, and the set it returns has exactly num elements.
C26_FauxSerials ==
    last.name = "get_faux_serials" =>
        LET length == last.args[1]
            num == last.args[2]
            valid == length >= 4 /\ num >= 1
            names == {Name(p) : p \in DOMAIN assets} IN
        /\ last.err = "ValueError" <=> ~valid
        /\ ~valid => last.out = {}
        /\ valid =>
            /\ last.err \in {"running", "ok"}
            /\ \A w \in last.out :
                /\ Len(w) = 4 + length
                /\ SubSeq(w, 1, 4) = "faux"
                /\ \A i \in 5..Len(w) : Char(w, i) \in alphanum
                /\ \A n \in names : \A k \in 1..(Len(n) - 3) :
                        (/\ SubSeq(n, k, k + 3) = "faux"
                         /\ \A j \in (k + 1)..(Len(n) - 3) : SubSeq(n, j, j + 3) # "faux")
                            => SubSeq(n, k + 4, Len(n)) # SubSeq(w, 5, Len(w))
            /\ last.err = "ok" => Cardinality(last.out) = num

\* get_faux_serials has returned two serials from a repository that holds
\* an asset with a faux serial
C26_Witness ==
    /\ last.name = "get_faux_serials"
    /\ last.err = "ok"
    /\ Cardinality(last.out) = 2
    /\ \E p \in DOMAIN assets : Name(p) = "m1.fauxaaaa"

\* C27: generate_asset_name(record) raises when no template is configured,
\* raises naming the first key of the template '{model}.{serial}' that the
\* record lacks, and otherwise returns the record's model, '.', and its
\* serial; it leaves the queue and the store as they were.
C27_GenerateName ==
    last.name = "generate_asset_name" =>
        LET content == last.args[1].content
            has(k) == k \in DOMAIN content IN
        /\ config \in {NoConfig, Template}
        /\ config = NoConfig => last.err = "ValueError"
        /\ config = Template /\ ~has("model") =>
                last.err = "ValueError" /\ last.out = "model"
        /\ config = Template /\ has("model") /\ ~has("serial") =>
                last.err = "ValueError" /\ last.out = "serial"
        /\ config = Template /\ has("model") /\ has("serial") =>
                last.err = "ok" /\ last.out = content.model \o "." \o content.serial
        /\ operations = last.pre
        /\ Store = last.store

\* generate_asset_name has returned a name on an inventory with a queued
\* operation
C27_Witness ==
    /\ last.name = "generate_asset_name"
    /\ last.err = "ok"
    /\ last.out = "m2.0"
    /\ operations # <<>>

\* C28: the filter key=<unset> matches a record iff the record is empty, or
\* lacks the key, or holds None or the empty string for the key.
C28_Unset ==
    last.name = "match" /\ last.args[2] = "<unset>" =>
        LET key == last.args[1]
            asset == last.args[3] IN
        /\ last.err = "ok"
        /\ last.out <=>
            \/ DOMAIN asset = {}
            \/ key \notin DOMAIN asset
            \/ asset[key] = NoneValue
            \/ asset[key] = Str("")

\* the filter serial=<unset> has matched a record whose serial is the empty
\* string
C28_Witness ==
    /\ last.name = "match"
    /\ last.args[2] = "<unset>"
    /\ "serial" \in DOMAIN last.args[3]
    /\ last.args[3]["serial"] = Str("")
    /\ last.args[1] = "serial"
    /\ last.out = TRUE

\* C29: a filter whose value is not <unset>, matched on a record that lacks
\* its key, returns false.
C29_AbsentKey ==
    last.name = "match" /\ last.args[2] # "<unset>"
            /\ last.args[1] \notin DOMAIN last.args[3] =>
        last.err = "ok" /\ last.out = FALSE

C30_Special == {"<unset>", "<list>", "<dict>", "[]", "{}"}

\* C30: a filter whose value is none of the special values, matched on a
\* record that has its key, returns true iff the value is a well-formed
\* regular expression that matches all of str(field), or the field is the
\* value itself; it never raises.
C30_Regex ==
    last.name = "match" /\ last.args[2] \notin C30_Special
            /\ last.args[1] \in DOMAIN last.args[3] =>
        LET value == last.args[2]
            field == last.args[3][last.args[1]] IN
        /\ last.err = "ok"
        /\ last.out <=>
            \/ ~re_error(value) /\ fullmatch(value, str(field))
            \/ field = Str(value)
        /\ value = "0*" /\ field \in {Str(""), Str("0"), Str("00"), IntValue} => last.out
        /\ value = ".*" => last.out
        /\ value = "." /\ field \in {Str("00"), Str(""), NoneValue} => ~last.out
        /\ value = "0" /\ field = IntValue => last.out
        /\ value \in {"(", "*", "**", "(0"} /\ field \in {Str("0"), Str("")} => ~last.out
        /\ value = "*" /\ field = Str("*") => last.out

\* a malformed regular expression was matched on a record that has the key,
\* and the filter did not match
C30_Witness ==
    /\ last.name = "match"
    /\ last.args[2] = "*"
    /\ last.args[1] \in DOMAIN last.args[3]
    /\ last.err = "ok"
    /\ last.out = FALSE

\* the position in q of the operation with the identity id
Position(q, id) == CHOOSE i \in 1..Len(q) : q[i].id = id

C34_FailedCommit ==
    /\ last.name = "commit" /\ pc = "idle" /\ last.err # "ok" =>
        /\ operations = last.pre
        /\ Range(executed) \subseteq Range(Ids(operations))
        /\ Range(executed) \subseteq applied
        /\ last.err = "CommitError" => executed = Ids(operations)
    /\ \A id \in applied :
            id \in Range(Ids(operations)) \/ id \in consumed \/ id \in discarded

\* a commit() is executing again an operation that a commit() that raised
\* has executed
C34_Witness ==
    /\ last.name = "commit"
    /\ pc = "commit"
    /\ Range(executed) \cap applied # {}

\* C35: an intent call leaves the queue it found as a prefix of the queue,
\* whether it returns or raises; what it appends is of one of the nine kinds
\* of OPERATIONS_MAPPING; diff() leaves the queue as it is; the queue is
\* shorter than the latest call found it only after reset() or commit().
C35_AppendOnly ==
    /\ last.name \in IntentNames =>
        /\ Len(last.pre) <= Len(operations)
        /\ SubSeq(operations, 1, Len(last.pre)) = last.pre
        /\ \A i \in 1..Len(Appended) : Appended[i].name \in OPERATIONS_MAPPING
    /\ last.name = "diff" => operations = last.pre
    /\ Len(operations) < Len(last.pre) => last.name \in {"reset", "commit"}
    /\ \A i \in 1..Len(operations) : operations[i].name \in OPERATIONS_MAPPING

\* an intent call has appended two operations to a queue that was not empty
C35_Witness ==
    /\ last.name \in IntentNames
    /\ last.pre # <<>>
    /\ Len(operations) >= Len(last.pre) + 2

\* the path an operation creates, removes, or works on
Creates(op) ==
    CASE op.name = "new_directories" -> {op.operands[1]}
      [] op.name = "new_assets" -> {op.operands[1].path}
      [] OTHER -> {}
Removes(op) ==
    IF op.name \in {"remove_assets", "remove_directories"} THEN {op.operands[1]} ELSE {}
Subject(op) ==
    CASE op.name = "new_directories" -> {op.operands[1]}
      [] op.name = "new_assets" -> {op.operands[1].path}
      [] op.name = "modify_assets" -> {op.operands[1].path}
      [] OTHER -> {op.operands[1]}

\* C36: the queue never holds two operations that create the same path (but
\* for the directory and the record of one asset directory), nor two that
\* remove the same path, nor an operation on a path that an operation queued
\* before it removes.
C36_PendingValidated ==
    \A i, j \in 1..Len(operations) :
        i < j =>
            /\ \/ Creates(operations[i]) \cap Creates(operations[j]) = {}
               \/ /\ operations[i].name = "new_directories"
                  /\ operations[j].name = "new_assets"
                  /\ operations[j].operands[1].is_asset_directory
            /\ Removes(operations[i]) \cap Removes(operations[j]) = {}
            /\ Removes(operations[i]) \cap Subject(operations[j]) = {}

\* C37: a move_directory or move_asset call that returns has enqueued a
\* move whose destination is not the source or below it and whose target
\* dst / src.name does not exist: its executor succeeds on the store the call
\* found.
C37_MoveExecutable ==
    last.name \in {"move_directory", "move_asset"} /\ last.err = "ok" =>
        LET src == last.args[1]
            dst == last.args[2]
            op == operations[Len(operations)] IN
        /\ op.operands = <<src, dst>>
        /\ ~IsPrefix(src, dst)
        /\ ~S_exists(last.store, Join(dst, Name(src)))
        /\ execute(last.store, op).ok

\* C38: while get_faux_serials runs, a pass of its loop adds at most one
\* serial, and none whose characters after 'faux' are a placeholder suffix of
\* a tracked asset; when at least num strings of the length are no such
\* suffix, a call with valid arguments returns, with num serials.
C38_Terminates ==
    /\ [][last.name = "get_faux_serials" /\ last.err = "running" =>
            /\ last.out \subseteq last'.out
            /\ Cardinality(last'.out) <= Cardinality(last.out) + 1
            /\ \A w \in last'.out \ last.out :
                    SubSeq(w, 5, Len(w)) \notin repo_faux_serials]_vars
    /\ (/\ last.name = "get_faux_serials"
        /\ last.err = "running"
        /\ Cardinality(Strings(last.args[1]) \ repo_faux_serials) >= last.args[2])
          ~> (/\ last.name = "get_faux_serials"
              /\ last.err = "ok"
              /\ Cardinality(last.out) = last.args[2])

\* get_faux_serials has returned as many serials as asked for from a
\* repository in which a string of the length is taken
C38_Witness ==
    /\ last.name = "get_faux_serials"
    /\ last.err = "ok"
    /\ last.args[2] >= 1
    /\ Cardinality(last.out) = last.args[2]
    /\ repo_faux_serials \cap Strings(last.args[1]) # {}

\* the keys that serializing strips
Stripped == Range(PSEUDO_KEYS) \cup Range(RESERVED_KEYS)

\* C31: the string dict_to_asset_yaml returns, and write_asset_file writes,
\* starts with the document marker and has a line for each top-level key of
\* the record that is no pseudo-key and no reserved key, in the order of the
\* record, and for no other key; it is the marker alone when no such key is
\* left; the record given still holds all its keys; write_asset_file leaves
\* a file at the path.
C31_Serialize ==
    last.name \in {"dict_to_asset_yaml", "write_asset_file"} =>
        LET d == last.args[Len(last.args)]
            yaml == last.out.yaml
            kept == SelectSeq(d, LAMBDA x : x.k \notin Stripped) IN
        /\ last.out.d = d
        /\ yaml[1] = "---"
        /\ \A i \in 2..Len(yaml) : yaml[i][1] \notin Stripped
        /\ Len(yaml) = Len(kept) + 1
        /\ \A i \in 1..Len(kept) : yaml[i + 1] = <<kept[i].k, kept[i].v>>
        /\ Range(Keys(d)) \subseteq Stripped => yaml = <<"---">>
        /\ last.name = "write_asset_file" =>
                last.args[1] \in files \cup DOMAIN assets

\* write_asset_file has written a record with a pseudo-key, reserved keys
\* and a user key that holds a dict with a reserved key
C31_Witness ==
    /\ last.name = "write_asset_file"
    /\ {"path", "template", "directory", "spec"} \subseteq Range(Keys(last.args[2]))
    /\ last.args[1] \in files
    /\ Len(last.out.yaml) = 2
    /\ last.out.yaml[2][2].t = "mapping"
    /\ HasKey(last.out.yaml[2][2].v, "template")

StartsWithDash(a) == Len(a) >= 1 /\ SubSeq(a, 1, 1) = "-"

\* C32: get_subcmd_index(arglist) returns the least index >= 1 of an argument
\* that does not start with '-' and does not follow '-C' or '--onyopath', and
\* None when there is none; it returns 4 and 3 for the two command lines of
\* test_get_subcmd_index_overlap.
C32_SubcmdIndex ==
    last.name = "get_subcmd_index" =>
        LET al == last.args[1]
            found == {i \in 1..(Len(al) - 1) :
                        ~StartsWithDash(al[i + 1]) /\ al[i] \notin flagplus} IN
        /\ last.err = "ok"
        /\ found = {} => last.out = NoIndex
        /\ found # {} => last.out = CHOOSE i \in found : \A j \in found : i <= j
        /\ al = <<"onyo", "-C", "onyo", "-d", "mv", "onyo", "mv">> => last.out = 4
        /\ al = <<"onyo", "-C", "mv", "mv", "mv", "onyo">> => last.out = 3

RECURSIVE Nodes(_)
\* the keys of a nested dict in dot notation, each with its value
Nodes(d) ==
    UNION {{<<d[i].k, d[i].v>>} \cup
            (IF d[i].v.t = "mapping"
             THEN {<<d[i].k \o "." \o n[1], n[2]>> : n \in Nodes(d[i].v.v)}
             ELSE {}) : i \in 1..Len(d)}
Leaves(d) == {n[1] : n \in {x \in Nodes(d) : x[2].t # "mapping"}}
Inner(d) == {n[1] : n \in {x \in Nodes(d) : x[2].t = "mapping"}}

\* C39: after w[k] = v has returned, w[k] is v and k is in w; after del w[k]
\* has returned, k is not in w; keys() and len() cover the keys of the values
\* that are no dict, and the keys of the dicts are in w but not among them;
\* w[k] for a key that is not there raises (KeyError, or TypeError where a
\* part of the key leads into a value that is no dict); reading leaves the
\* wrapped dict as it is.
C39_DotNotation ==
    /\ last.name = "setitem" /\ last.err = "ok" =>
        /\ getitem(last.out.data, last.args[2]) = Ok(last.args[3])
        /\ contains(last.out.data, last.args[2])
    /\ last.name = "delitem" /\ last.err = "ok" =>
        ~contains(last.out.data, last.args[2])
    /\ last.name = "keys" =>
        /\ Range(last.out.val.keys) = Leaves(last.out.data)
        /\ last.out.val.len = Cardinality(Leaves(last.out.data))
        /\ \A k \in Inner(last.out.data) :
            contains(last.out.data, k) /\ k \notin Range(last.out.val.keys)
    /\ last.name = "getitem" =>
        /\ last.args[2] \notin Leaves(last.args[1]) \cup Inner(last.args[1])
                => last.err \in {"KeyError", "TypeError"}
        /\ last.out.data = last.args[1]
    /\ last.name \in {"contains", "keys"} => last.out.data = last.args[1]

\* the first position of the value x in the sequence sq
FirstAt(sq, x) == CHOOSE i \in 1..Len(sq) : sq[i] = x /\ \A j \in 1..(i - 1) : sq[j] # x

\* C40: deduplicate returns None for None and the empty list for the empty
\* list; for a list it returns a list without repetition of the values of
\* the list, each where its first occurrence puts it, and deduplicate of
\* what it returns returns the same.
C40_Deduplicate ==
    last.name = "deduplicate" =>
        LET sequence == last.args[1]
            r == last.out IN
        /\ sequence = None => r = None
        /\ sequence = List(<<>>) => r = List(<<>>)
        /\ sequence.t = "list" =>
            /\ r.t = "list"
            /\ \A i, j \in 1..Len(r.v) : i # j => r.v[i] # r.v[j]
            /\ Range(r.v) = Range(sequence.v)
            /\ \A i, j \in 1..Len(r.v) :
                i < j => FirstAt(sequence.v, r.v[i]) < FirstAt(sequence.v, r.v[j])
            /\ deduplicate(r) = r

\* deduplicate has dropped a later occurrence of a value that has another
\* value after its first occurrence
C40_Witness ==
    /\ last.name = "deduplicate"
    /\ last.args[1] = List(<<"x", "y", "x">>)
    /\ last.out = List(<<"x", "y">>)

====
